---- MODULE Spec2Model ----
(***************************************************************************)
(* Risk scoring and history store of the fingerprint demo.                 *)
(*                                                                         *)
(*   calculateRiskScore / getRiskRecommendations   utils/risk-calculator   *)
(*   getStoredFingerprints / saveFingerprint /                             *)
(*   clearStoredFingerprints / getDeviceCount / getIPCount                 *)
(*                                                 utils/storage.client    *)
(*   generateFingerprint / clearHistory            FingerprintDemo         *)
(*   generateDeviceFingerprint                     utils/fingerprint.client*)
(*                                                                         *)
(* Numbers.  The JavaScript score is a double.  Every amount added to it   *)
(* is an integer except ipRisk * 0.4, and ipRisk is an integer (it is the  *)
(* result of Math.round in calculateCombinedRiskScore), so the score is    *)
(* always a multiple of one tenth up to rounding noise far below the .5    *)
(* that Math.round looks at.  The model holds the score in tenths of a     *)
(* point.  Confidences are fractions; the ones the program produces are    *)
(* k/n with n <= 7 (detectIncognito) or decimals with one digit, so the    *)
(* model holds a confidence c as the integer c * ConfidenceScale.          *)
(*                                                                         *)
(* Strings that the code searches (userAgent) are sequences of one         *)
(* character strings; strings that the code only compares are TLA+ strings.*)
(* Fields of a session that no modelled code reads (id, timestamp,         *)
(* components, method, details, country, region, city, isp) are left out.  *)
(***************************************************************************)
EXTENDS Integers, Sequences, FiniteSets, TLC

VARIABLES
  localStorage,   \* the browser's localStorage, as far as STORAGE_KEY goes
  session,        \* the argument of the current call of calculateRiskScore
  pc,             \* the statement of calculateRiskScore about to run, "return"
                  \* once it has returned, "idle" when no call is in progress
  score,          \* the local `score`, in tenths of a point
  riskFactors,    \* the local `riskFactors`
  result,         \* the value returned by the last completed call
  callLog,        \* the last two completed calls of calculateRiskScore, newest first
  saves,          \* number of saveFingerprint calls made so far
  promises,       \* the three promises generateFingerprint awaits
  isLoading,      \* the component's isLoading
  currentSession, \* the component's currentSession
  sessions,       \* the component's sessions
  recommendations,\* the last call of getRiskRecommendations: arguments and list
  recorded,       \* how often each visitorId and each ip was handed to
                  \* saveFingerprint since localStorage was last cleared
  produced,       \* the last call of a producer looked at on its own: what
                  \* it met (input) and, once it has returned, its output
  tracker,        \* the fields of the BehaviorTracker
  arrays,         \* the arrays of tags on the heap, by id
  now,            \* Date.now(), counted from the tracker's construction
  lastAnalysis,   \* what the last call of getAnalysis returned
  events          \* number of events dispatched to the tracker, and the last one

pageVars == <<promises, isLoading, currentSession, sessions, recommendations>>

trackerVars == <<tracker, arrays, now, lastAnalysis, events>>

producerVars == <<produced, tracker, arrays, now, lastAnalysis, events>>

vars == <<localStorage, session, pc, score, riskFactors, result, callLog, saves,
          promises, isLoading, currentSession, sessions, recommendations, recorded,
          produced, tracker, arrays, now, lastAnalysis, events>>

-----------------------------------------------------------------------------
(* Scales and bounds *)

ScoreScale == 10
ConfidenceScale == 420

\* saveFingerprint calls explored on top of the initial store
MaxSaves == 2

\* `null`
Null == [null |-> TRUE]

Max(a, b) == IF a >= b THEN a ELSE b
Min(a, b) == IF a <= b THEN a ELSE b

\* Array.prototype.includes
includes(array, x) == \E i \in DOMAIN array : array[i] = x

-----------------------------------------------------------------------------
(* Strings searched by substring *)

UpperToLower ==
  [A |-> "a", B |-> "b", C |-> "c", D |-> "d", E |-> "e", F |-> "f", G |-> "g",
   H |-> "h", I |-> "i", J |-> "j", K |-> "k", L |-> "l", M |-> "m", N |-> "n",
   O |-> "o", P |-> "p", Q |-> "q", R |-> "r", S |-> "s", T |-> "t", U |-> "u",
   V |-> "v", W |-> "w", X |-> "x", Y |-> "y", Z |-> "z"]

\* String.prototype.toLowerCase
toLowerCase(str) ==
  [i \in DOMAIN str |-> IF str[i] \in DOMAIN UpperToLower THEN UpperToLower[str[i]] ELSE str[i]]

\* String.prototype.includes
strIncludes(str, sub) ==
  \E i \in 0..(Len(str) - Len(sub)) : SubSeq(str, i + 1, i + Len(sub)) = sub

kwHeadless == <<"h","e","a","d","l","e","s","s">>
kwPhantom == <<"p","h","a","n","t","o","m">>
kwSelenium == <<"s","e","l","e","n","i","u","m">>
kwChromedriver == <<"c","h","r","o","m","e","d","r","i","v","e","r">>
kwPuppeteer == <<"p","u","p","p","e","t","e","e","r">>
kwPlaywright == <<"p","l","a","y","w","r","i","g","h","t">>
kwWebdriver == <<"w","e","b","d","r","i","v","e","r">>
kwBot == <<"b","o","t">>
kwCrawler == <<"c","r","a","w","l","e","r">>
kwSpider == <<"s","p","i","d","e","r">>
kwMsie == <<"m","s","i","e">>
kwInternetExplorer == <<"i","n","t","e","r","n","e","t"," ","e","x","p","l","o","r","e","r">>

-----------------------------------------------------------------------------
(* storage.client: the history store *)

\* The value `getStoredFingerprints` returns when nothing usable is stored.
\* A history (a JavaScript object used as a map) is the sequence of its
\* entries [key, count] in insertion order.  lastUpdated is written and
\* never read, and left out.
EmptyStore ==
  [sessions |-> <<>>, deviceHistory |-> <<>>, ipHistory |-> <<>>]

\* What localStorage holds under STORAGE_KEY:
\*   available = FALSE   every access to localStorage throws
\*   item = Null         no item (never saved, or removed)
\*   item.text = "json"  JSON.stringify of item.value
\*   item.text = "junk"  a string JSON.parse rejects
\* A JSON value is a store (shape "store") or JSON null (shape "null") or an
\* object without the store's fields (shape "object"); the program itself only
\* ever writes stores.
JSONstringify(value) == [text |-> "json", value |-> value]

JSONnull == [shape |-> "null"]
JSONemptyObject == [shape |-> "object"]
StoreValue(stored) ==
  [shape |-> "store", sessions |-> stored.sessions,
   deviceHistory |-> stored.deviceHistory, ipHistory |-> stored.ipHistory]

\* A call that returns carries its value; a call that throws carries none.
Return(v) == [threw |-> FALSE, value |-> v]
Throw == [threw |-> TRUE]

\* JSON.parse
JSONparse(item) ==
  IF item.text = "json" THEN Return(item.value) ELSE Throw

\* localStorage.getItem(STORAGE_KEY)
getItem(ls) == IF ls.available THEN Return(ls.item) ELSE Throw

\* getStoredFingerprints: the parsed item, or the empty store when there is
\* no item or when getItem / JSON.parse throws.  Never throws itself.
getStoredFingerprints(ls) ==
  LET got == getItem(ls) IN
  IF got.threw THEN StoreValue(EmptyStore)
  ELSE IF got.value = Null THEN StoreValue(EmptyStore)
  ELSE LET parsed == JSONparse(got.value) IN
       IF parsed.threw THEN StoreValue(EmptyStore) ELSE parsed.value

\* history[key] || 0
countOr0(history, key) ==
  IF \E i \in DOMAIN history : history[i].key = key
  THEN history[CHOOSE i \in DOMAIN history : history[i].key = key].count
  ELSE 0

\* getDeviceCount: throws when the parsed value has no deviceHistory.
getDeviceCount(ls, deviceId) ==
  LET stored == getStoredFingerprints(ls) IN
  IF stored.shape = "store" THEN Return(countOr0(stored.deviceHistory, deviceId)) ELSE Throw

\* getIPCount: throws when the parsed value has no ipHistory.
getIPCount(ls, ip) ==
  LET stored == getStoredFingerprints(ls) IN
  IF stored.shape = "store" THEN Return(countOr0(stored.ipHistory, ip)) ELSE Throw

\* how many sessions the store holds (0 when it has no session list)
StoredSessionCount(ls) ==
  IF getStoredFingerprints(ls).shape = "store"
  THEN Len(getStoredFingerprints(ls).sessions) ELSE 0

\* increment starting again from 1 for a key it already holds
increment_startsOver(history, key) ==
  IF \E i \in DOMAIN history : history[i].key = key
  THEN [i \in DOMAIN history |->
          IF history[i].key = key THEN [key |-> key, count |-> 1] ELSE history[i]]
  ELSE Append(history, [key |-> key, count |-> 1])

\* history[key] = (history[key] || 0) + 1
increment(history, key) ==
  IF \E i \in DOMAIN history : history[i].key = key
  THEN [i \in DOMAIN history |->
          IF history[i].key = key
          THEN [key |-> key, count |-> history[i].count + 1]
          ELSE history[i]]
  ELSE Append(history, [key |-> key, count |-> countOr0(history, key) + 1])

MaxStoredSessions == 50

\* saveFingerprint putting the new session last, behind the stored ones
saveFingerprint_pushesLast(ls, fp) ==
  LET stored == getStoredFingerprints(ls) IN
  IF stored.shape # "store" THEN ls
  ELSE
    LET unshifted == stored.sessions \o <<fp>>
        kept == IF Len(unshifted) > MaxStoredSessions
                THEN SubSeq(unshifted, 1, MaxStoredSessions) ELSE unshifted
        deviceHistory == increment(stored.deviceHistory, fp.deviceFingerprint.visitorId)
        ipHistory == IF fp.ipAnalysis # Null
                     THEN increment(stored.ipHistory, fp.ipAnalysis.ip)
                     ELSE stored.ipHistory
        updated == [sessions |-> kept, deviceHistory |-> deviceHistory, ipHistory |-> ipHistory]
    IN IF ls.available
       THEN [ls EXCEPT !.item = JSONstringify(StoreValue(updated))]
       ELSE ls

\* saveFingerprint: the localStorage after the call.  Any throw inside
\* (no sessions array to unshift into, setItem refused) is caught and leaves
\* localStorage as it was.
saveFingerprint(ls, fp) ==
  LET stored == getStoredFingerprints(ls) IN
  IF stored.shape # "store" THEN ls
  ELSE
    LET unshifted == <<fp>> \o stored.sessions
        kept == IF Len(unshifted) > MaxStoredSessions
                THEN SubSeq(unshifted, 1, MaxStoredSessions) ELSE unshifted
        deviceHistory == increment(stored.deviceHistory, fp.deviceFingerprint.visitorId)
        ipHistory == IF fp.ipAnalysis # Null
                     THEN increment(stored.ipHistory, fp.ipAnalysis.ip)
                     ELSE stored.ipHistory
        updated == [sessions |-> kept, deviceHistory |-> deviceHistory, ipHistory |-> ipHistory]
    IN IF ls.available
       THEN [ls EXCEPT !.item = JSONstringify(StoreValue(updated))]
       ELSE ls

\* clearStoredFingerprints: removeItem, a throw is caught.
clearStoredFingerprints(ls) ==
  IF ls.available THEN [ls EXCEPT !.item = Null] ELSE ls

-----------------------------------------------------------------------------
(* risk-calculator: the statements of calculateRiskScore, in source order.  *)
(* Each takes the session (and the store where it reads it) and the two     *)
(* locals acc = [score, riskFactors], and gives the locals after it.        *)

\* score += points; riskFactors.push(label)
AddWithFactor(acc, points, label) ==
  [score |-> acc.score + points * ScoreScale,
   riskFactors |-> Append(acc.riskFactors, label)]

\* score += points
AddOnly(acc, tenths) == [acc EXCEPT !.score = @ + tenths]

\* c < x for a confidence c and a decimal x given in tenths
ConfBelow(c, tenthsOfOne) == c * 10 < tenthsOfOne * ConfidenceScale
ConfAbove(c, tenthsOfOne) == c * 10 > tenthsOfOne * ConfidenceScale

\* FingerprintConfidence with the first threshold at 0.2
FingerprintConfidence_firstThreshold(s, acc) ==
  LET fpConfidence == s.deviceFingerprint.confidence IN
  IF ConfBelow(fpConfidence, 2) THEN AddWithFactor(acc, 40, "very-low-fingerprint-confidence")
  ELSE IF ConfBelow(fpConfidence, 5) THEN AddWithFactor(acc, 25, "low-fingerprint-confidence")
  ELSE IF ConfBelow(fpConfidence, 7) THEN AddWithFactor(acc, 10, "medium-fingerprint-confidence")
  ELSE acc

FingerprintConfidence(s, acc) ==
  LET fpConfidence == s.deviceFingerprint.confidence IN
  IF ConfBelow(fpConfidence, 3) THEN AddWithFactor(acc, 40, "very-low-fingerprint-confidence")
  ELSE IF ConfBelow(fpConfidence, 5) THEN AddWithFactor(acc, 25, "low-fingerprint-confidence")
  ELSE IF ConfBelow(fpConfidence, 7) THEN AddWithFactor(acc, 10, "medium-fingerprint-confidence")
  ELSE acc

\* IncognitoDetected without the test of isIncognito
IncognitoDetected_flagIgnored(s, acc) ==
  LET confidence == s.incognitoDetection.confidence IN
  IF ConfAbove(confidence, 8) THEN AddWithFactor(acc, 35, "confirmed-incognito")
  ELSE IF ConfAbove(confidence, 5) THEN AddWithFactor(acc, 25, "likely-incognito")
  ELSE AddWithFactor(acc, 15, "possible-incognito")

IncognitoDetected(s, acc) ==
  IF s.incognitoDetection.isIncognito
  THEN LET confidence == s.incognitoDetection.confidence IN
       IF ConfAbove(confidence, 8) THEN AddWithFactor(acc, 35, "confirmed-incognito")
       ELSE IF ConfAbove(confidence, 5) THEN AddWithFactor(acc, 25, "likely-incognito")
       ELSE AddWithFactor(acc, 15, "possible-incognito")
  ELSE acc

\* IpRisk reading riskScore as a trust score
IpRisk_inverted(s, acc) ==
  IF s.ipAnalysis # Null
  THEN AddOnly(acc, (100 - s.ipAnalysis.riskScore) * 4)
  ELSE acc

\* score += ipRisk * 0.4
IpRisk(s, acc) ==
  IF s.ipAnalysis # Null
  THEN AddOnly(acc, s.ipAnalysis.riskScore * 4)
  ELSE acc

VpnDetected(s, acc) ==
  IF s.ipAnalysis # Null /\ s.ipAnalysis.isVPN
  THEN AddWithFactor(acc, 30, "vpn-detected") ELSE acc

TorDetected(s, acc) ==
  IF s.ipAnalysis # Null /\ s.ipAnalysis.isTor
  THEN AddWithFactor(acc, 50, "tor-detected") ELSE acc

\* ProxyDetected giving way to a VPN that was already counted
ProxyDetected_unlessVpn(s, acc) ==
  IF s.ipAnalysis # Null /\ s.ipAnalysis.isProxy /\ ~s.ipAnalysis.isVPN
  THEN AddWithFactor(acc, 20, "proxy-detected") ELSE acc

ProxyDetected(s, acc) ==
  IF s.ipAnalysis # Null /\ s.ipAnalysis.isProxy
  THEN AddWithFactor(acc, 20, "proxy-detected") ELSE acc

ThreatHostingProvider(s, acc) ==
  IF s.ipAnalysis # Null /\ includes(s.ipAnalysis.threatTypes, "hosting-provider")
  THEN AddWithFactor(acc, 15, "hosting-provider") ELSE acc

ThreatKnownVpn(s, acc) ==
  IF s.ipAnalysis # Null /\ includes(s.ipAnalysis.threatTypes, "known-vpn")
  THEN AddWithFactor(acc, 25, "known-vpn-service") ELSE acc

ThreatBlacklisted(s, acc) ==
  IF s.ipAnalysis # Null /\ includes(s.ipAnalysis.threatTypes, "blacklisted")
  THEN AddWithFactor(acc, 40, "blacklisted-ip") ELSE acc

ThreatHighRisk(s, acc) ==
  IF s.ipAnalysis # Null /\ includes(s.ipAnalysis.threatTypes, "high-risk")
  THEN AddWithFactor(acc, 30, "high-risk-ip") ELSE acc

\* score += suspiciousPatterns.length * 12
PatternCount(s, acc) ==
  AddOnly(acc, Len(s.behaviorAnalysis.suspiciousPatterns) * 12 * ScoreScale)

PatternMouseSpeed(s, acc) ==
  IF includes(s.behaviorAnalysis.suspiciousPatterns, "inhuman-mouse-speed")
  THEN AddWithFactor(acc, 20, "bot-like-mouse-movement") ELSE acc

PatternTypingSpeed(s, acc) ==
  IF includes(s.behaviorAnalysis.suspiciousPatterns, "inhuman-typing-speed")
  THEN AddWithFactor(acc, 25, "bot-like-typing") ELSE acc

\* PatternKeystrokeTiming with 30 points in place of the 12 of the count
PatternKeystrokeTiming_insteadOfBase(s, acc) ==
  IF includes(s.behaviorAnalysis.suspiciousPatterns, "consistent-keystroke-timing")
  THEN AddWithFactor(acc, 30 - 12, "automated-input") ELSE acc

PatternKeystrokeTiming(s, acc) ==
  IF includes(s.behaviorAnalysis.suspiciousPatterns, "consistent-keystroke-timing")
  THEN AddWithFactor(acc, 30, "automated-input") ELSE acc

PatternStraightLines(s, acc) ==
  IF includes(s.behaviorAnalysis.suspiciousPatterns, "straight-mouse-lines")
  THEN AddWithFactor(acc, 15, "scripted-mouse-movement") ELSE acc

\* InteractionSpeed with the second test as an `if` of its own
InteractionSpeed_independentTests(s, acc) ==
  LET interactionSpeed == s.behaviorAnalysis.interactionSpeed
      first == IF interactionSpeed > 2000
               THEN AddWithFactor(acc, 25, "superhuman-interaction-speed") ELSE acc
  IN IF interactionSpeed > 1000
     THEN AddWithFactor(first, 15, "very-fast-interactions") ELSE first

InteractionSpeed(s, acc) ==
  LET interactionSpeed == s.behaviorAnalysis.interactionSpeed IN
  IF interactionSpeed > 2000 THEN AddWithFactor(acc, 25, "superhuman-interaction-speed")
  ELSE IF interactionSpeed > 1000 THEN AddWithFactor(acc, 15, "very-fast-interactions")
  ELSE acc

totalInteractions(s) ==
  s.behaviorAnalysis.mouseMovements + s.behaviorAnalysis.keystrokes
    + s.behaviorAnalysis.scrollEvents

\* RapidFire with the second test as an `if` of its own
RapidFire_independentTests(s, acc) ==
  LET timeOnPage == s.behaviorAnalysis.timeOnPage
      first == IF timeOnPage < 3000 /\ totalInteractions(s) > 100
               THEN AddWithFactor(acc, 35, "rapid-fire-interactions") ELSE acc
  IN IF timeOnPage < 5000 /\ totalInteractions(s) > 50
     THEN AddWithFactor(first, 20, "fast-interaction-burst") ELSE first

RapidFire(s, acc) ==
  LET timeOnPage == s.behaviorAnalysis.timeOnPage IN
  IF timeOnPage < 3000 /\ totalInteractions(s) > 100
  THEN AddWithFactor(acc, 35, "rapid-fire-interactions")
  ELSE IF timeOnPage < 5000 /\ totalInteractions(s) > 50
  THEN AddWithFactor(acc, 20, "fast-interaction-burst")
  ELSE acc

MinimalInteraction(s, acc) ==
  IF s.behaviorAnalysis.timeOnPage > 30000 /\ totalInteractions(s) < 5
  THEN AddWithFactor(acc, 20, "minimal-interaction") ELSE acc

\* DeviceHistory with a catch block that fails closed
DeviceHistory_failClosed(s, ls, acc) ==
  LET deviceCount == getDeviceCount(ls, s.deviceFingerprint.visitorId) IN
  IF deviceCount.threw THEN AddWithFactor(acc, 25, "history-unavailable")
  ELSE IF deviceCount.value > 20 THEN AddWithFactor(acc, 25, "frequent-device-reuse")
  ELSE IF deviceCount.value > 10 THEN AddWithFactor(acc, 15, "repeated-device-usage")
  ELSE acc

\* DeviceHistory counting the stored sessions instead of the device's counter
DeviceHistory_countsSessions(s, ls, acc) ==
  LET deviceCount == StoredSessionCount(ls) IN
  IF deviceCount > 20 THEN AddWithFactor(acc, 25, "frequent-device-reuse")
  ELSE IF deviceCount > 10 THEN AddWithFactor(acc, 15, "repeated-device-usage")
  ELSE acc

\* The first half of the try block.  A throw of getDeviceCount leaves the
\* block (see NextStatement) with the locals untouched.
DeviceHistory(s, ls, acc) ==
  LET deviceCount == getDeviceCount(ls, s.deviceFingerprint.visitorId) IN
  IF deviceCount.threw THEN acc
  ELSE IF deviceCount.value > 20 THEN AddWithFactor(acc, 25, "frequent-device-reuse")
  ELSE IF deviceCount.value > 10 THEN AddWithFactor(acc, 15, "repeated-device-usage")
  ELSE acc

\* IpHistory looking up the address of the newest stored session when the
\* session has no ipAnalysis
IpHistory_lastKnownAddress(s, ls, acc) ==
  LET stored == getStoredFingerprints(ls)
      known == stored.shape = "store" /\ stored.sessions # <<>>
                 /\ stored.sessions[1].ipAnalysis # Null
  IN
  IF s.ipAnalysis # Null \/ known
  THEN LET ipCount == getIPCount(ls, IF s.ipAnalysis # Null THEN s.ipAnalysis.ip
                                     ELSE stored.sessions[1].ipAnalysis.ip) IN
       IF ipCount.threw THEN acc
       ELSE IF ipCount.value > 50 THEN AddWithFactor(acc, 30, "ip-abuse-pattern")
       ELSE IF ipCount.value > 20 THEN AddWithFactor(acc, 20, "frequent-ip-usage")
       ELSE acc
  ELSE acc

\* The second half of the try block.
IpHistory(s, ls, acc) ==
  IF s.ipAnalysis # Null
  THEN LET ipCount == getIPCount(ls, s.ipAnalysis.ip) IN
       IF ipCount.threw THEN acc
       ELSE IF ipCount.value > 50 THEN AddWithFactor(acc, 30, "ip-abuse-pattern")
       ELSE IF ipCount.value > 20 THEN AddWithFactor(acc, 20, "frequent-ip-usage")
       ELSE acc
  ELSE acc

HeadlessBrowser(s, acc) ==
  LET ua == toLowerCase(s.userAgent) IN
  IF strIncludes(ua, kwHeadless) \/ strIncludes(ua, kwPhantom)
       \/ strIncludes(ua, kwSelenium) \/ strIncludes(ua, kwChromedriver)
  THEN AddWithFactor(acc, 60, "headless-browser") ELSE acc

AutomationTool(s, acc) ==
  LET ua == toLowerCase(s.userAgent) IN
  IF strIncludes(ua, kwPuppeteer) \/ strIncludes(ua, kwPlaywright)
       \/ strIncludes(ua, kwWebdriver)
  THEN AddWithFactor(acc, 55, "automation-tool") ELSE acc

BotUserAgent(s, acc) ==
  LET ua == toLowerCase(s.userAgent) IN
  IF strIncludes(ua, kwBot) \/ strIncludes(ua, kwCrawler) \/ strIncludes(ua, kwSpider)
  THEN AddWithFactor(acc, 40, "bot-user-agent") ELSE acc

\* OutdatedBrowser searching the user agent as given, not lower-cased
OutdatedBrowser_caseSensitive(s, acc) ==
  IF strIncludes(s.userAgent, kwMsie) \/ strIncludes(s.userAgent, kwInternetExplorer)
  THEN AddWithFactor(acc, 10, "outdated-browser") ELSE acc

OutdatedBrowser(s, acc) ==
  LET ua == toLowerCase(s.userAgent) IN
  IF strIncludes(ua, kwMsie) \/ strIncludes(ua, kwInternetExplorer)
  THEN AddWithFactor(acc, 10, "outdated-browser") ELSE acc

\* InvalidScreenResolution without the push
InvalidScreenResolution_noFactor(s, acc) ==
  IF s.screenResolution = "0x0" \/ s.screenResolution = "1x1"
  THEN AddOnly(acc, 45 * ScoreScale) ELSE acc

InvalidScreenResolution(s, acc) ==
  IF s.screenResolution = "0x0" \/ s.screenResolution = "1x1"
  THEN AddWithFactor(acc, 45, "invalid-screen-resolution") ELSE acc

SuspiciousTimezone(s, acc) ==
  IF s.timezone = "" \/ s.timezone = "UTC"
  THEN AddWithFactor(acc, 10, "suspicious-timezone") ELSE acc

\* score += 2, no factor
DefaultLanguage(s, acc) ==
  IF s.language = "" \/ s.language = "en" \/ s.language = "en-US"
  THEN AddOnly(acc, 2 * ScoreScale) ELSE acc

\* Math.round of a value held in tenths: floor(x + 0.5)
MathRound(tenths) == (tenths + 5) \div ScoreScale

\* ClampScore with 100 itself out of range
ClampScore_belowHundred(tenths) == Max(0, Min(99, MathRound(tenths)))

\* ClampScore without the upper bound
ClampScore_noUpperBound(tenths) == Max(0, MathRound(tenths))

\* score = Math.max(0, Math.min(100, Math.round(score)))
ClampScore(tenths) == Max(0, Min(100, MathRound(tenths)))

\* RiskLevelOf with the lower bound of CRITICAL excluded
RiskLevelOf_exclusiveBound(points) ==
  IF points > 85 THEN "CRITICAL"
  ELSE IF points >= 65 THEN "HIGH"
  ELSE IF points >= 35 THEN "MEDIUM"
  ELSE "LOW"

\* the riskLevel of a clamped score
RiskLevelOf(points) ==
  IF points >= 85 THEN "CRITICAL"
  ELSE IF points >= 65 THEN "HIGH"
  ELSE IF points >= 35 THEN "MEDIUM"
  ELSE "LOW"

\* return { riskScore: score, riskLevel }
ReturnValue(tenths) ==
  [riskScore |-> ClampScore(tenths), riskLevel |-> RiskLevelOf(ClampScore(tenths))]

\* getRiskRecommendations with a ban added for the upper HIGH scores
getRiskRecommendations_scoreEscalation(riskLevel, riskScore) ==
  CASE riskLevel = "CRITICAL" ->
         <<"Block access immediately", "Require phone verification",
           "Send security alert to admins", "Implement temporary IP ban">>
    [] riskLevel = "HIGH" ->
         <<"Require additional verification", "Request SMS verification",
           "Enable enhanced monitoring", "Rate limit API requests">>
         \o (IF riskScore >= 80 THEN <<"Implement temporary IP ban">> ELSE <<>>)
    [] riskLevel = "MEDIUM" ->
         <<"Monitor user behavior closely", "Track usage patterns",
           "Set up alerts for unusual activity", "Implement soft rate limiting">>
    [] riskLevel = "LOW" ->
         <<"Allow normal access", "Continue standard monitoring">>
    [] OTHER -> <<>>

\* getRiskRecommendations: the switch over riskLevel; a level that is no
\* case leaves the list empty.  riskScore is a parameter the body never
\* reads.  Each text is given without the pictograph it starts with.
getRiskRecommendations(riskLevel, riskScore) ==
  CASE riskLevel = "CRITICAL" ->
         <<"Block access immediately", "Require phone verification",
           "Send security alert to admins", "Implement temporary IP ban">>
    [] riskLevel = "HIGH" ->
         <<"Require additional verification", "Request SMS verification",
           "Enable enhanced monitoring", "Rate limit API requests">>
    [] riskLevel = "MEDIUM" ->
         <<"Monitor user behavior closely", "Track usage patterns",
           "Set up alerts for unusual activity", "Implement soft rate limiting">>
    [] riskLevel = "LOW" ->
         <<"Allow normal access", "Continue standard monitoring">>
    [] OTHER -> <<>>

-----------------------------------------------------------------------------
(* calculateRiskScore as a whole *)

Statements ==
  <<"FingerprintConfidence", "IncognitoDetected",
    "IpRisk", "VpnDetected", "TorDetected", "ProxyDetected",
    "ThreatHostingProvider", "ThreatKnownVpn", "ThreatBlacklisted", "ThreatHighRisk",
    "PatternCount", "PatternMouseSpeed", "PatternTypingSpeed",
    "PatternKeystrokeTiming", "PatternStraightLines",
    "InteractionSpeed", "RapidFire", "MinimalInteraction",
    "DeviceHistory", "IpHistory",
    "HeadlessBrowser", "AutomationTool", "BotUserAgent", "OutdatedBrowser",
    "InvalidScreenResolution", "SuspiciousTimezone", "DefaultLanguage">>

\* the locals after the statement called `name`
Execute(name, s, ls, acc) ==
  CASE name = "FingerprintConfidence" -> FingerprintConfidence(s, acc)
    [] name = "IncognitoDetected" -> IncognitoDetected(s, acc)
    [] name = "IpRisk" -> IpRisk(s, acc)
    [] name = "VpnDetected" -> VpnDetected(s, acc)
    [] name = "TorDetected" -> TorDetected(s, acc)
    [] name = "ProxyDetected" -> ProxyDetected(s, acc)
    [] name = "ThreatHostingProvider" -> ThreatHostingProvider(s, acc)
    [] name = "ThreatKnownVpn" -> ThreatKnownVpn(s, acc)
    [] name = "ThreatBlacklisted" -> ThreatBlacklisted(s, acc)
    [] name = "ThreatHighRisk" -> ThreatHighRisk(s, acc)
    [] name = "PatternCount" -> PatternCount(s, acc)
    [] name = "PatternMouseSpeed" -> PatternMouseSpeed(s, acc)
    [] name = "PatternTypingSpeed" -> PatternTypingSpeed(s, acc)
    [] name = "PatternKeystrokeTiming" -> PatternKeystrokeTiming(s, acc)
    [] name = "PatternStraightLines" -> PatternStraightLines(s, acc)
    [] name = "InteractionSpeed" -> InteractionSpeed(s, acc)
    [] name = "RapidFire" -> RapidFire(s, acc)
    [] name = "MinimalInteraction" -> MinimalInteraction(s, acc)
    [] name = "DeviceHistory" -> DeviceHistory(s, ls, acc)
    [] name = "IpHistory" -> IpHistory(s, ls, acc)
    [] name = "HeadlessBrowser" -> HeadlessBrowser(s, acc)
    [] name = "AutomationTool" -> AutomationTool(s, acc)
    [] name = "BotUserAgent" -> BotUserAgent(s, acc)
    [] name = "OutdatedBrowser" -> OutdatedBrowser(s, acc)
    [] name = "InvalidScreenResolution" -> InvalidScreenResolution(s, acc)
    [] name = "SuspiciousTimezone" -> SuspiciousTimezone(s, acc)
    [] name = "DefaultLanguage" -> DefaultLanguage(s, acc)

\* the statement after each statement; after the last one, the clamp
StatementAfter ==
  [name \in {Statements[i] : i \in DOMAIN Statements} |->
     LET i == CHOOSE j \in DOMAIN Statements : Statements[j] = name IN
     IF i = Len(Statements) THEN "clamp" ELSE Statements[i + 1]]

\* Where control goes after the statement called `name`: the next statement,
\* except that a throw of getDeviceCount goes to the (empty) catch block and
\* so past the rest of the try block.
NextStatement(name, s, ls) ==
  IF name = "DeviceHistory" /\ getDeviceCount(ls, s.deviceFingerprint.visitorId).threw
  THEN "HeadlessBrowser"
  ELSE StatementAfter[name]

\* let score = 0; const riskFactors = []
InitialLocals == [score |-> 0, riskFactors |-> <<>>]

RECURSIVE RunFrom(_, _, _, _)
RunFrom(name, s, ls, acc) ==
  IF name = "clamp" THEN acc
  ELSE RunFrom(NextStatement(name, s, ls), s, ls, Execute(name, s, ls, acc))

\* the locals when control reaches the clamp
Accumulate(s, ls) == RunFrom(Statements[1], s, ls, InitialLocals)

\* calculateRiskScore(session), called with localStorage = ls
calculateRiskScore(s, ls) == ReturnValue(Accumulate(s, ls).score)

\* { ...sessionData, riskScore, riskLevel }, the FingerprintSession that
\* generateFingerprint builds from a scored session and saves
FingerprintSession(s, r) ==
  [deviceFingerprint |-> s.deviceFingerprint,
   incognitoDetection |-> s.incognitoDetection,
   ipAnalysis |-> s.ipAnalysis,
   behaviorAnalysis |-> s.behaviorAnalysis,
   riskScore |-> r.riskScore,
   riskLevel |-> r.riskLevel,
   userAgent |-> s.userAgent,
   screenResolution |-> s.screenResolution,
   timezone |-> s.timezone,
   language |-> s.language]

-----------------------------------------------------------------------------
(* Inputs *)

uaChrome == <<"C","h","r","o","m","e","/","1","2","0">>
uaHeadlessChrome == <<"H","e","a","d","l","e","s","s","C","h","r","o","m","e">>
uaGooglebot == <<"G","o","o","g","l","e","b","o","t">>
uaMsieWebDriver == <<"M","S","I","E"," ","W","e","b","D","r","i","v","e","r">>

\* userAgent, screenResolution, timezone, language as getDeviceInfo reports them
Environments ==
  { [userAgent |-> uaChrome, screenResolution |-> "1920x1080",
     timezone |-> "Europe/Paris", language |-> "fr-FR"],
    [userAgent |-> uaChrome, screenResolution |-> "1920x1080",
     timezone |-> "UTC", language |-> "en-US"],
    [userAgent |-> uaHeadlessChrome, screenResolution |-> "0x0",
     timezone |-> "", language |-> ""],
    [userAgent |-> uaGooglebot, screenResolution |-> "1x1",
     timezone |-> "Europe/Paris", language |-> "en"],
    [userAgent |-> uaMsieWebDriver, screenResolution |-> "1920x1080",
     timezone |-> "Europe/Paris", language |-> "fr-FR"] }

\* confidence 0.2, 0.3, 0.5, 0.7 (in 1/ConfidenceScale)
DeviceFingerprints ==
  { [visitorId |-> "d1", confidence |-> c] : c \in {84, 126, 210, 294} }

\* not detected; detected with confidence 0.5, 0.8, 6/7
IncognitoDetections ==
  { [isIncognito |-> FALSE, confidence |-> 0],
    [isIncognito |-> TRUE, confidence |-> 210],
    [isIncognito |-> TRUE, confidence |-> 336],
    [isIncognito |-> TRUE, confidence |-> 360] }

IpAnalyses ==
  { Null,
    [ip |-> "ip1", isVPN |-> FALSE, isTor |-> FALSE, isProxy |-> FALSE,
     riskScore |-> 0, threatTypes |-> <<>>],
    [ip |-> "ip1", isVPN |-> FALSE, isTor |-> FALSE, isProxy |-> FALSE,
     riskScore |-> 1, threatTypes |-> <<"datacenter">>],
    [ip |-> "ip1", isVPN |-> TRUE, isTor |-> FALSE, isProxy |-> FALSE,
     riskScore |-> 37, threatTypes |-> <<"known-vpn", "hosting-provider">>],
    [ip |-> "ip1", isVPN |-> FALSE, isTor |-> TRUE, isProxy |-> TRUE,
     riskScore |-> 100, threatTypes |-> <<"blacklisted", "high-risk">>] }

\* interactionSpeed is interactions per minute, rounded up
BehaviorAnalyses ==
  { [mouseMovements |-> 0, keystrokes |-> 0, scrollEvents |-> 0,
     timeOnPage |-> 0, interactionSpeed |-> 0, suspiciousPatterns |-> <<>>],
    [mouseMovements |-> 6, keystrokes |-> 3, scrollEvents |-> 1,
     timeOnPage |-> 60000, interactionSpeed |-> 10, suspiciousPatterns |-> <<>>],
    [mouseMovements |-> 2, keystrokes |-> 0, scrollEvents |-> 0,
     timeOnPage |-> 30001, interactionSpeed |-> 4, suspiciousPatterns |-> <<>>],
    [mouseMovements |-> 90, keystrokes |-> 10, scrollEvents |-> 1,
     timeOnPage |-> 2999, interactionSpeed |-> 2021,
     suspiciousPatterns |-> <<"inhuman-mouse-speed", "straight-mouse-lines">>],
    [mouseMovements |-> 40, keystrokes |-> 10, scrollEvents |-> 1,
     timeOnPage |-> 4999, interactionSpeed |-> 613,
     suspiciousPatterns |-> <<"repetitive-mouse-pattern">>],
    [mouseMovements |-> 50, keystrokes |-> 40, scrollEvents |-> 10,
     timeOnPage |-> 5000, interactionSpeed |-> 1200,
     suspiciousPatterns |-> <<"inhuman-typing-speed", "consistent-keystroke-timing">>] }

\* Omit<FingerprintSession, 'riskScore' | 'riskLevel'>
SessionData(device, incognito, ip, behavior, env) ==
  [deviceFingerprint |-> device,
   incognitoDetection |-> incognito,
   ipAnalysis |-> ip,
   behaviorAnalysis |-> behavior,
   userAgent |-> env.userAgent,
   screenResolution |-> env.screenResolution,
   timezone |-> env.timezone,
   language |-> env.language]

\* A visitor behind Tor whose typing is timed like a machine's: confidence
\* 0.9, incognito with confidence 0.9, riskScore 80, one suspicious pattern
\* (one that calculateRiskScore knows by name, or one it only counts),
\* 125 interactions in 3 seconds, that is 2500 a minute.
TorVisitors ==
  { SessionData([visitorId |-> "d1", confidence |-> 378],
                [isIncognito |-> TRUE, confidence |-> 378],
                [ip |-> "ip1", isVPN |-> FALSE, isTor |-> TRUE, isProxy |-> FALSE,
                 riskScore |-> 80, threatTypes |-> <<"tor">>],
                [mouseMovements |-> 5, keystrokes |-> 120, scrollEvents |-> 0,
                 timeOnPage |-> 3000, interactionSpeed |-> 2500,
                 suspiciousPatterns |-> <<pattern>>],
                e) :
      pattern \in {"consistent-keystroke-timing", "repetitive-mouse-pattern"},
      e \in Environments }

\* Sessions with values outside their range, as a producer that trusts a
\* remote service can report them (riskScore is ipData.risk || 0 averaged
\* and rounded, with an upper bound only): confidences -0.2 and 1.5, a
\* negative riskScore, negative event counts, a negative timeOnPage.
OutOfRangeSessions ==
  LET base == SessionData([visitorId |-> "d1", confidence |-> 84],
                          [isIncognito |-> FALSE, confidence |-> 0],
                          [ip |-> "ip1", isVPN |-> FALSE, isTor |-> FALSE, isProxy |-> FALSE,
                           riskScore |-> 0, threatTypes |-> <<>>],
                          [mouseMovements |-> 6, keystrokes |-> 3, scrollEvents |-> 1,
                           timeOnPage |-> 60000, interactionSpeed |-> 10,
                           suspiciousPatterns |-> <<>>],
                          [userAgent |-> uaChrome, screenResolution |-> "1920x1080",
                           timezone |-> "Europe/Paris", language |-> "fr-FR"])
  IN { [base EXCEPT !.deviceFingerprint.confidence = -84],
       [base EXCEPT !.deviceFingerprint.confidence = 630],
       [base EXCEPT !.incognitoDetection = [isIncognito |-> TRUE, confidence |-> 630]],
       [base EXCEPT !.ipAnalysis.riskScore = -50],
       [base EXCEPT !.behaviorAnalysis.mouseMovements = -10,
                    !.behaviorAnalysis.keystrokes = 60,
                    !.behaviorAnalysis.timeOnPage = 4000,
                    !.behaviorAnalysis.interactionSpeed = 750],
       [base EXCEPT !.behaviorAnalysis.timeOnPage = -1,
                    !.behaviorAnalysis.interactionSpeed = -600000] }

\* an ordinary visitor that comes back again and again
ReturningVisitor ==
  SessionData([visitorId |-> "d1", confidence |-> 378],
              [isIncognito |-> FALSE, confidence |-> 0],
              [ip |-> "ip1", isVPN |-> FALSE, isTor |-> FALSE, isProxy |-> FALSE,
               riskScore |-> 0, threatTypes |-> <<>>],
              [mouseMovements |-> 6, keystrokes |-> 3, scrollEvents |-> 1,
               timeOnPage |-> 60000, interactionSpeed |-> 10, suspiciousPatterns |-> <<>>],
              [userAgent |-> uaChrome, screenResolution |-> "1920x1080",
               timezone |-> "Europe/Paris", language |-> "fr-FR"])

\* the threat types calculateRiskScore knows by name
KnownThreatTypes == <<"hosting-provider", "known-vpn", "blacklisted", "high-risk">>

\* An ordinary visitor whose address comes with any combination of the
\* three flags and of the four threat types, at riskScore 37.
NetworkSessions ==
  { [ReturningVisitor EXCEPT
       !.ipAnalysis = [ip |-> "ip1", isVPN |-> vpn, isTor |-> tor, isProxy |-> proxy,
                       riskScore |-> 37,
                       threatTypes |-> SelectSeq(KnownThreatTypes, LAMBDA t : t \in threats)]] :
      vpn \in BOOLEAN, tor \in BOOLEAN, proxy \in BOOLEAN,
      threats \in SUBSET {KnownThreatTypes[i] : i \in DOMAIN KnownThreatTypes} }

\* the patterns BehaviorTracker can add, in the order of its tests
TrackerPatterns ==
  <<"straight-mouse-lines", "inhuman-mouse-speed", "repetitive-mouse-pattern",
    "inhuman-typing-speed", "consistent-keystroke-timing">>

\* An ordinary visitor with any combination of the tracker's patterns.
BehaviorSessions ==
  { [ReturningVisitor EXCEPT
       !.behaviorAnalysis.suspiciousPatterns =
          SelectSeq(TrackerPatterns, LAMBDA t : t \in patterns)] :
      patterns \in SUBSET {TrackerPatterns[i] : i \in DOMAIN TrackerPatterns} }

\* the sessions calculateRiskScore is run on, statement by statement
ScoredSessions ==
  { SessionData(d, i, n, b, e) :
      d \in DeviceFingerprints, i \in IncognitoDetections, n \in IpAnalyses,
      b \in BehaviorAnalyses, e \in Environments }
  \cup TorVisitors \cup OutOfRangeSessions \cup NetworkSessions \cup BehaviorSessions

\* the sessions the exported functions are called with
ApiSessions ==
  { ReturningVisitor,
    [ReturningVisitor EXCEPT !.ipAnalysis = Null],
    [ReturningVisitor EXCEPT !.deviceFingerprint.visitorId = "d2",
                             !.ipAnalysis.ip = "ip2",
                             !.ipAnalysis.isTor = TRUE,
                             !.ipAnalysis.riskScore = 80] }

\* localStorage with nothing stored
FreshStorage == [available |-> TRUE, item |-> Null]

\* The FingerprintSession generateFingerprint saves at the j-th analysis of
\* ReturningVisitor: it is scored before it is saved, so against the counts
\* j - 1 of the analyses before it.
VisitRecord(j) ==
  FingerprintSession(ReturningVisitor,
    calculateRiskScore(ReturningVisitor,
      [available |-> TRUE,
       item |-> JSONstringify(StoreValue(
                  [sessions |-> <<>>,
                   deviceHistory |-> <<[key |-> "d1", count |-> j - 1]>>,
                   ipHistory |-> <<[key |-> "ip1", count |-> j - 1]>>]))]))

\* localStorage after k earlier analyses of ReturningVisitor: the newest
\* MaxStoredSessions of them, newest first, and both counters at k
AfterVisits(k) ==
  IF k = 0 THEN FreshStorage
  ELSE [available |-> TRUE,
        item |-> JSONstringify(StoreValue(
                   [sessions |-> [i \in 1..Min(k, MaxStoredSessions) |-> VisitRecord(k + 1 - i)],
                    deviceHistory |-> <<[key |-> "d1", count |-> k]>>,
                    ipHistory |-> <<[key |-> "ip1", count |-> k]>>]))]

\* The FingerprintSession generateFingerprint saves for a session s with an
\* address, scored while the counters of its device and its address stood
\* at deviceCount and ipCount.
ScoredAt(s, deviceCount, ipCount) ==
  FingerprintSession(s,
    calculateRiskScore(s,
      [available |-> TRUE,
       item |-> JSONstringify(StoreValue(
                  [sessions |-> <<>>,
                   deviceHistory |-> <<[key |-> s.deviceFingerprint.visitorId,
                                        count |-> deviceCount]>>,
                   ipHistory |-> <<[key |-> s.ipAnalysis.ip, count |-> ipCount]>>]))]))

\* an ordinary visitor on another device at the same address
OtherDevice == [ReturningVisitor EXCEPT !.deviceFingerprint.visitorId = "d2"]

\* one of the Tor visitors
TorVisitor == CHOOSE s \in TorVisitors : TRUE

\* localStorage after `others` analyses of OtherDevice followed by `tors`
\* analyses of TorVisitor (at least one of each), all at ip1: the newest
\* MaxStoredSessions sessions, newest first, and the counters
AfterOthersAndTor(others, tors) ==
  LET total == others + tors IN
  [available |-> TRUE,
   item |-> JSONstringify(StoreValue(
              [sessions |-> [i \in 1..Min(total, MaxStoredSessions) |->
                               IF i <= tors
                               THEN ScoredAt(TorVisitor, tors - i, total - i)
                               ELSE ScoredAt(OtherDevice, total - i, total - i)],
               deviceHistory |-> <<[key |-> "d2", count |-> others],
                                   [key |-> "d1", count |-> tors]>>,
               ipHistory |-> <<[key |-> "ip1", count |-> total]>>]))]

\* device counter 25, address counter 60
AfterTorVisits == AfterOthersAndTor(35, 25)

\* numbers of earlier visits at the thresholds of the history ladders (one
\* more visit crosses the threshold) and at the cap of the session list
PriorVisits == {10, 20, 50}

\* the contents localStorage can have when the page loads
InitialStorages ==
  { FreshStorage,
    [available |-> FALSE, item |-> Null],
    [available |-> TRUE, item |-> [text |-> "junk"]],
    [available |-> TRUE, item |-> JSONstringify(JSONnull)],
    [available |-> TRUE, item |-> JSONstringify(JSONemptyObject)] }
  \cup { AfterVisits(k) : k \in PriorVisits }

\* the contents localStorage can have when calculateRiskScore is called
StoragesAtScoring ==
  InitialStorages \cup { AfterVisits(k + 1) : k \in PriorVisits } \cup { AfterTorVisits }

NoSession == [none |-> TRUE]
NoResult == [none |-> TRUE]

\* what the history lookups of a call return (Null: not looked up)
Lookups(s, ls) ==
  [device |-> getDeviceCount(ls, s.deviceFingerprint.visitorId),
   ip |-> IF s.ipAnalysis # Null /\ ~getDeviceCount(ls, s.deviceFingerprint.visitorId).threw
          THEN getIPCount(ls, s.ipAnalysis.ip) ELSE Null]

\* the log after a call with argument s that returned r while localStorage was ls
LogCall(log, s, r, ls) ==
  SubSeq(<<[session |-> s, result |-> r, lookups |-> Lookups(s, ls),
            stored |-> StoredSessionCount(ls)]>> \o log,
         1, Min(2, Len(log) + 1))

\* the visitorIds and the addresses that occur: FingerprintJS ids, the
\* 'fallback-' + random ids of generateDeviceFingerprint, the
\* 'error-' + Date.now() id of generateFingerprint
DeviceIds == {"d1", "d2", "fallback-k3x9q0w2z", "fallback-b7m1c4v8n", "error-1762300800000"}
Addresses == {"ip1", "ip2"}

NothingRecorded ==
  [device |-> [id \in DeviceIds |-> 0], ip |-> [a \in Addresses |-> 0]]

\* recorded, after fp was handed to saveFingerprint
Record(rec, fp) ==
  [device |-> [rec.device EXCEPT ![fp.deviceFingerprint.visitorId] = @ + 1],
   ip |-> IF fp.ipAnalysis # Null
          THEN [rec.ip EXCEPT ![fp.ipAnalysis.ip] = @ + 1]
          ELSE rec.ip]

\* recorded, for the localStorage the page loads with: the earlier analyses
\* of ReturningVisitor that left it
RecordedBefore(ls) ==
  LET behind == {n \in PriorVisits \cup {m + 1 : m \in PriorVisits} : ls = AfterVisits(n)}
      visits == IF behind = {} THEN 0 ELSE CHOOSE n \in behind : TRUE
  IN IF ls = AfterTorVisits
     THEN [device |-> [id \in DeviceIds |-> IF id = "d1" THEN 25 ELSE IF id = "d2" THEN 35 ELSE 0],
           ip |-> [a \in Addresses |-> IF a = "ip1" THEN 60 ELSE 0]]
     ELSE [device |-> [id \in DeviceIds |-> IF id = "d1" THEN visits ELSE 0],
           ip |-> [a \in Addresses |-> IF a = "ip1" THEN visits ELSE 0]]

-----------------------------------------------------------------------------
(* behavior.client: BehaviorTracker.  The tracker's fields are a record; the *)
(* array suspiciousPatterns is an object on the heap `arrays`, named by its *)
(* id, since getAnalysis hands an array out.  The clock `now` is Date.now() *)
(* counted from the construction of the tracker, in ms.                     *)

MaxMousePath == 100
MaxKeystrokeTimings == 50

\* the arrays of tags that can be alive at a time: the tracker's and the one
\* of the last analysis returned
ArrayIds == {"a1", "a2", "a3"}

\* new BehaviorTracker(), or reset(), at time `at` with a new array `id`
NewTracker(at, id) ==
  [mouseMovements |-> 0, keystrokes |-> 0, scrollEvents |-> 0,
   startTime |-> at, lastInteraction |-> at,
   suspiciousPatterns |-> id, mousePath |-> <<>>, keystrokeTimings |-> <<>>]

\* the heap with every array that is not referenced any more forgotten
collect(heap, live) == [id \in ArrayIds |-> IF id \in live THEN heap[id] ELSE <<>>]

\* an id for a new array
newArray(live) == CHOOSE id \in ArrayIds : id \notin live

\* array.push(x); if (array.length > max) array.shift()
pushAndTrim(array, x, max) ==
  IF Len(array) + 1 > max THEN Tail(Append(array, x)) ELSE Append(array, x)

\* array.slice(-n)
lastOf(array, n) == SubSeq(array, Max(1, Len(array) - n + 1), Len(array))

\* Math.sqrt, for the squares of whole numbers
sqrt(n) == CHOOSE r \in 0..n : r * r = n

\* Math.pow(a.x - b.x, 2) + Math.pow(a.y - b.y, 2)
squaredDistance(a, b) == (a.x - b.x) * (a.x - b.x) + (a.y - b.y) * (a.y - b.y)

\* addSuspiciousPattern: the heap after it
addSuspiciousPattern(heap, id, pattern) ==
  IF ~includes(heap[id], pattern) THEN [heap EXCEPT ![id] = Append(@, pattern)] ELSE heap

\* detectStraightLines
detectStraightLines(moves) ==
  Cardinality({i \in 3..Len(moves) :
    LET p1 == moves[i - 2]
        p2 == moves[i - 1]
        p3 == moves[i]
        twice == (p2.x - p1.x) * (p3.y - p1.y) - (p3.x - p1.x) * (p2.y - p1.y)
        area == IF twice < 0 THEN -twice ELSE twice
    IN area < 5})

\* calculateMouseSpeeds: the moves that took time, by index, and the speed of
\* each in hundredths of a pixel per second, rounded down
timedMoves(moves) == {i \in 2..Len(moves) : moves[i].timestamp - moves[i - 1].timestamp > 0}
speedOf(moves, i) ==
  (sqrt(squaredDistance(moves[i], moves[i - 1])) * 100000)
    \div (moves[i].timestamp - moves[i - 1].timestamp)

RECURSIVE sumSpeeds(_, _)
sumSpeeds(moves, indices) ==
  IF indices = {} THEN 0
  ELSE LET i == CHOOSE j \in indices : TRUE IN
       speedOf(moves, i) + sumSpeeds(moves, indices \ {i})

\* avgSpeed > 2000 (0 / 0 is NaN, and NaN > 2000 is false)
avgSpeedAbove2000(moves) ==
  LET timed == timedMoves(moves) IN
  timed # {} /\ sumSpeeds(moves, timed) > 2000 * 100 * Cardinality(timed)

\* detectRepetitiveMousePattern
detectRepetitiveMousePattern(mousePath) ==
  IF Len(mousePath) < 20 THEN FALSE
  ELSE LET recent == lastOf(mousePath, 20)
           similarMoves == Cardinality({i \in 1..10 :
                             squaredDistance(recent[i], recent[i + 10]) < 50 * 50})
       IN similarMoves > 7

\* analyzeMousePattern: the heap after it
analyzeMousePattern(t, heap) ==
  IF Len(t.mousePath) < 10 THEN heap
  ELSE
    LET recentMoves == lastOf(t.mousePath, 10)
        afterLines == IF detectStraightLines(recentMoves) > 5
                      THEN addSuspiciousPattern(heap, t.suspiciousPatterns, "straight-mouse-lines")
                      ELSE heap
        afterSpeed == IF avgSpeedAbove2000(recentMoves)
                      THEN addSuspiciousPattern(afterLines, t.suspiciousPatterns,
                                                "inhuman-mouse-speed")
                      ELSE afterLines
    IN IF detectRepetitiveMousePattern(t.mousePath)
       THEN addSuspiciousPattern(afterSpeed, t.suspiciousPatterns, "repetitive-mouse-pattern")
       ELSE afterSpeed

RECURSIVE sumOf(_)
sumOf(numbers) == IF numbers = <<>> THEN 0 ELSE Head(numbers) + sumOf(Tail(numbers))

\* analyzeKeystrokePattern: the heap after it.  With n intervals of sum s,
\* avgInterval < 50 is s < 50 n, and variance < 10 is
\* sum (n x - s)^2 < 10 n^3.
analyzeKeystrokePattern(t, heap) ==
  IF Len(t.keystrokeTimings) < 10 THEN heap
  ELSE
    LET recentTimings == lastOf(t.keystrokeTimings, 10)
        intervals == [i \in 1..(Len(recentTimings) - 1) |->
                        recentTimings[i + 1] - recentTimings[i]]
        n == Len(intervals)
        s == sumOf(intervals)
        squaredDiffs == [i \in 1..n |-> (n * intervals[i] - s) * (n * intervals[i] - s)]
        afterSpeed == IF s < 50 * n
                      THEN addSuspiciousPattern(heap, t.suspiciousPatterns,
                                                "inhuman-typing-speed")
                      ELSE heap
    IN IF sumOf(squaredDiffs) < 10 * n * n * n
       THEN addSuspiciousPattern(afterSpeed, t.suspiciousPatterns,
                                 "consistent-keystroke-timing")
       ELSE afterSpeed

\* The four listeners.  st = [tracker, arrays, now] is the tracker, the heap
\* and the clock before the event, e the event with the time dt that has
\* passed since then; the result is the three after the listener has run.
mousemove(st, e) ==
  LET at == st.now + e.dt
      t == [st.tracker EXCEPT
              !.mouseMovements = @ + 1,
              !.lastInteraction = at,
              !.mousePath = pushAndTrim(@, [x |-> e.clientX, y |-> e.clientY,
                                            timestamp |-> at], MaxMousePath)]
  IN [tracker |-> t, arrays |-> analyzeMousePattern(t, st.arrays), now |-> at]

keydown(st, e) ==
  LET at == st.now + e.dt
      t == [st.tracker EXCEPT
              !.keystrokes = @ + 1,
              !.lastInteraction = at,
              !.keystrokeTimings = pushAndTrim(@, at, MaxKeystrokeTimings)]
  IN [tracker |-> t, arrays |-> analyzeKeystrokePattern(t, st.arrays), now |-> at]

scroll(st, e) ==
  LET at == st.now + e.dt IN
  [tracker |-> [st.tracker EXCEPT !.scrollEvents = @ + 1, !.lastInteraction = at],
   arrays |-> st.arrays, now |-> at]

click(st, e) ==
  LET at == st.now + e.dt IN
  [tracker |-> [st.tracker EXCEPT !.lastInteraction = at], arrays |-> st.arrays, now |-> at]

dispatch(st, e) ==
  IF e.type = "mousemove" THEN mousemove(st, e)
  ELSE IF e.type = "keydown" THEN keydown(st, e)
  ELSE IF e.type = "scroll" THEN scroll(st, e)
  ELSE click(st, e)

\* (totalInteractions / (timeOnPage / 60000)) || 0 as a fraction: n / 0 is
\* Infinity for n > 0, and 0 / 0 is NaN, which || turns into 0
interactionSpeedOf(totalInteractionCount, timeOnPage) ==
  IF totalInteractionCount = 0 THEN [num |-> 0, den |-> 1]
  ELSE [num |-> totalInteractionCount * 60000, den |-> timeOnPage]

\* getAnalysis returning the tracker's own array of tags
getAnalysis_sharesTags(t, at, copyId) ==
  [mouseMovements |-> t.mouseMovements,
   keystrokes |-> t.keystrokes,
   scrollEvents |-> t.scrollEvents,
   timeOnPage |-> at - t.startTime,
   interactionSpeed |-> interactionSpeedOf(t.mouseMovements + t.keystrokes + t.scrollEvents,
                                            at - t.startTime),
   suspiciousPatterns |-> t.suspiciousPatterns]

\* getAnalysis: what it returns, its suspiciousPatterns being the new array
\* copyId that [...this.suspiciousPatterns] creates
getAnalysis(t, at, copyId) ==
  [mouseMovements |-> t.mouseMovements,
   keystrokes |-> t.keystrokes,
   scrollEvents |-> t.scrollEvents,
   timeOnPage |-> at - t.startTime,
   interactionSpeed |-> interactionSpeedOf(t.mouseMovements + t.keystrokes + t.scrollEvents,
                                            at - t.startTime),
   suspiciousPatterns |-> copyId]

\* the times that pass between two events, in ms (events can share a
\* millisecond), and the places the pointer is seen at
TimeSteps == {0, 1, 100}
PointerPlaces == { [x |-> 0, y |-> 0], [x |-> 80, y |-> 0], [x |-> 0, y |-> 60] }

\* the events a page can dispatch
MouseMoveEvents ==
  { [type |-> "mousemove", clientX |-> p.x, clientY |-> p.y, dt |-> dt] :
      p \in PointerPlaces, dt \in TimeSteps }
OtherEvents(type) == { [type |-> type, dt |-> dt] : dt \in TimeSteps }

\* a tracker just constructed
FreshTracker ==
  [tracker |-> NewTracker(0, "a1"), arrays |-> [id \in ArrayIds |-> <<>>], now |-> 0]

\* n moves of a hand: round the three places, a tenth of a second each
HandMoves(n) ==
  LET place(i) == IF i % 3 = 0 THEN [x |-> 0, y |-> 0]
                  ELSE IF i % 3 = 1 THEN [x |-> 80, y |-> 0] ELSE [x |-> 0, y |-> 60]
  IN [i \in 1..n |-> [type |-> "mousemove", clientX |-> place(i).x,
                      clientY |-> place(i).y, dt |-> 100]]

\* n moves of a script: to and fro between two places, a millisecond each
ScriptMoves(n) ==
  [i \in 1..n |-> [type |-> "mousemove", clientX |-> IF i % 2 = 0 THEN 0 ELSE 80,
                   clientY |-> 0, dt |-> 1]]

\* n keys of a script, a millisecond each
ScriptKeys(n) == [i \in 1..n |-> [type |-> "keydown", dt |-> 1]]

\* what a page has dispatched before the tracker is looked at: nothing, or
\* events that fill the tracker's arrays
EarlierEvents ==
  { <<>>,
    HandMoves(MaxMousePath),
    ScriptMoves(MaxMousePath),
    ScriptKeys(MaxKeystrokeTimings),
    HandMoves(MaxMousePath - 1) \o ScriptKeys(MaxKeystrokeTimings - 1) }

\* no event dispatched yet and none to come: `earlier` holds the earlier
\* events still to be dispatched, count and last the calls and events
\* followed after them
NoEvents == [count |-> 0, last |-> "none", earlier |-> <<>>]

\* the tracker of a page nobody looks at
TrackerAtRest ==
  /\ tracker = FreshTracker.tracker
  /\ arrays = FreshTracker.arrays
  /\ now = 0
  /\ lastAnalysis = Null
  /\ events = NoEvents

\* no producer was called on its own
NoCall == [call |-> "none"]

\* a promise that was not created yet
NoPromise == [status |-> "none"]

\* the component before generateFingerprint was ever called
PageAtRest ==
  /\ promises = [device |-> NoPromise, incognito |-> NoPromise, ip |-> NoPromise]
  /\ isLoading = FALSE
  /\ currentSession = Null
  /\ sessions = <<>>
  /\ recommendations = Null

-----------------------------------------------------------------------------
(* One call of calculateRiskScore, statement by statement *)

InitScore ==
  /\ localStorage \in StoragesAtScoring
  /\ recorded = RecordedBefore(localStorage)
  /\ session \in ScoredSessions
  /\ pc = Statements[1]
  /\ score = InitialLocals.score
  /\ riskFactors = InitialLocals.riskFactors
  /\ result = NoResult
  /\ callLog = <<>>
  /\ saves = 0
  /\ PageAtRest
  /\ produced = NoCall
  /\ TrackerAtRest

Statement ==
  /\ pc \in {Statements[i] : i \in DOMAIN Statements}
  /\ LET after == Execute(pc, session, localStorage,
                          [score |-> score, riskFactors |-> riskFactors]) IN
       /\ score' = after.score
       /\ riskFactors' = after.riskFactors
  /\ pc' = NextStatement(pc, session, localStorage)
  /\ UNCHANGED <<producerVars, localStorage, session, result, callLog, saves, pageVars, recorded>>

ClampAndReturn ==
  /\ pc = "clamp"
  /\ score' = ClampScore(score) * ScoreScale
  /\ result' = ReturnValue(score)
  /\ callLog' = LogCall(callLog, session, ReturnValue(score), localStorage)
  /\ pc' = "return"
  /\ UNCHANGED <<producerVars, localStorage, session, riskFactors, saves, pageVars, recorded>>

NextScore == Statement \/ ClampAndReturn

SpecScore == InitScore /\ [][NextScore]_vars

-----------------------------------------------------------------------------
(* The exported functions, called in any order *)

Init ==
  /\ localStorage \in InitialStorages
  /\ recorded = RecordedBefore(localStorage)
  /\ session = NoSession
  /\ pc = "idle"
  /\ score = InitialLocals.score
  /\ riskFactors = InitialLocals.riskFactors
  /\ result = NoResult
  /\ callLog = <<>>
  /\ saves = 0
  /\ PageAtRest
  /\ produced = NoCall
  /\ TrackerAtRest

\* CalculateRiskScore persisting the session it has scored
CalculateRiskScore_persisting ==
  \E s \in ApiSessions :
    LET locals == Accumulate(s, localStorage)
        returned == ReturnValue(locals.score)
    IN /\ session' = s
       /\ score' = returned.riskScore * ScoreScale
       /\ riskFactors' = locals.riskFactors
       /\ result' = returned
       /\ callLog' = LogCall(callLog, s, returned, localStorage)
       /\ localStorage' = saveFingerprint(localStorage, FingerprintSession(s, returned))
       /\ UNCHANGED <<producerVars, pc, saves, pageVars, recorded>>

CalculateRiskScore ==
  \E s \in ApiSessions :
    LET locals == Accumulate(s, localStorage)
        returned == ReturnValue(locals.score)
    IN /\ session' = s
       /\ score' = returned.riskScore * ScoreScale
       /\ riskFactors' = locals.riskFactors
       /\ result' = returned
       /\ callLog' = LogCall(callLog, s, returned, localStorage)
       /\ UNCHANGED <<producerVars, localStorage, pc, saves, pageVars, recorded>>

SaveFingerprint ==
  /\ saves < MaxSaves
  /\ \E s \in ApiSessions :
       LET fp == FingerprintSession(s, calculateRiskScore(s, localStorage)) IN
       /\ localStorage' = saveFingerprint(localStorage, fp)
       /\ recorded' = Record(recorded, fp)
  /\ saves' = saves + 1
  /\ UNCHANGED <<producerVars, session, pc, score, riskFactors, result, callLog, pageVars>>

ClearStoredFingerprints ==
  /\ localStorage' = clearStoredFingerprints(localStorage)
  /\ recorded' = NothingRecorded
  /\ UNCHANGED <<producerVars, session, pc, score, riskFactors, result, callLog, saves, pageVars>>

Next == CalculateRiskScore \/ SaveFingerprint \/ ClearStoredFingerprints

Spec == Init /\ [][Next]_vars

-----------------------------------------------------------------------------
(* The component: generateFingerprint and clearHistory *)

\* analyses explored on top of the initial store
MaxAnalyses == 2

\* a settled promise
Fulfilled(v) == [status |-> "fulfilled", value |-> v]
Rejected == [status |-> "rejected"]

\* A promise that is not settled: Pending while its producer is at work,
\* Stalled when the producer waits for an answer that will never come.  No
\* code tells the two apart.
Pending == [status |-> "pending"]
Stalled == [status |-> "stalled"]

Settled(promise) == promise.status \in {"fulfilled", "rejected"}

\* what FingerprintJS.load() and fp.get() come to: a result, or a throw
FingerprintJSResults ==
  { Return([visitorId |-> "d1", confidence |-> [score |-> 378]]), Throw }

\* 'fallback-' + Math.random().toString(36).substr(2, 9)
FallbackIds == {"fallback-k3x9q0w2z", "fallback-b7m1c4v8n"}

\* 'error-' + Date.now()
ErrorId == "error-1762300800000"

\* generateDeviceFingerprint with a fallback fingerprint of confidence 0
generateDeviceFingerprint_zeroConfidence(library, fallbackId) ==
  IF library.threw
  THEN Fulfilled([visitorId |-> fallbackId, confidence |-> 0])
  ELSE Fulfilled([visitorId |-> library.value.visitorId,
                  confidence |-> library.value.confidence.score])

\* generateDeviceFingerprint: the promise it returns.  A throw of
\* FingerprintJS is caught and answered with the fallback fingerprint, of
\* confidence 0.1.
generateDeviceFingerprint(library, fallbackId) ==
  IF library.threw
  THEN Fulfilled([visitorId |-> fallbackId, confidence |-> ConfidenceScale \div 10])
  ELSE Fulfilled([visitorId |-> library.value.visitorId,
                  confidence |-> library.value.confidence.score])

\* detectIncognito reporting incognito on a tie as well
detectIncognito_tieDetects(incognitoCount, totalTests) ==
  LET confidence == IF totalTests > 0
                    THEN (incognitoCount * ConfidenceScale) \div totalTests ELSE 0
  IN Fulfilled([isIncognito |-> confidence * 2 >= ConfidenceScale,
                confidence |-> confidence])

\* detectIncognito reporting incognito as soon as one test is positive
detectIncognito_anyPositive(incognitoCount, totalTests) ==
  LET confidence == IF totalTests > 0
                    THEN (incognitoCount * ConfidenceScale) \div totalTests ELSE 0
  IN Fulfilled([isIncognito |-> incognitoCount > 0,
                confidence |-> confidence])

\* detectIncognito, for the number of its tests that report incognito among
\* the tests that settled with a result
detectIncognito(incognitoCount, totalTests) ==
  LET confidence == IF totalTests > 0
                    THEN (incognitoCount * ConfidenceScale) \div totalTests ELSE 0
  IN Fulfilled([isIncognito |-> confidence * 2 > ConfidenceScale,
                confidence |-> confidence])

\* the number of tests detectIncognito runs
IncognitoTests == 7

\* how many of the tests report incognito, in the runs explored
IncognitoCounts == {0, 6}

\* what analyzeIP resolves to: null when no service gives an address or
\* when anything throws, an IPAnalysis otherwise
IpResults == { Null, ReturningVisitor.ipAnalysis }

\* behaviorTracker.current.getAnalysis() and getDeviceInfo() at the moment
\* the promises have settled
PageBehavior == ReturningVisitor.behaviorAnalysis
PageDeviceInfo ==
  [userAgent |-> ReturningVisitor.userAgent,
   screenResolution |-> ReturningVisitor.screenResolution,
   timezone |-> ReturningVisitor.timezone,
   language |-> ReturningVisitor.language]

\* sessionData, built from the three settled promises
SessionDataOf(settled) ==
  SessionData(IF settled.device.status = "fulfilled" THEN settled.device.value
              ELSE [visitorId |-> ErrorId, confidence |-> 0],
              IF settled.incognito.status = "fulfilled" THEN settled.incognito.value
              ELSE [isIncognito |-> FALSE, confidence |-> 0],
              IF settled.ip.status = "fulfilled" THEN settled.ip.value ELSE Null,
              PageBehavior, PageDeviceInfo)

\* what the page can find in localStorage when it loads (the component
\* does not survive its first effect on a stored value that is no store)
PageStorages ==
  { FreshStorage,
    [available |-> FALSE, item |-> Null],
    [available |-> TRUE, item |-> [text |-> "junk"]],
    AfterVisits(10), AfterVisits(20) }

\* the component once mounted: the useEffect has shown the stored sessions
InitPage ==
  /\ localStorage \in PageStorages
  /\ recorded = RecordedBefore(localStorage)
  /\ session = NoSession
  /\ pc = "idle"
  /\ score = InitialLocals.score
  /\ riskFactors = InitialLocals.riskFactors
  /\ result = NoResult
  /\ callLog = <<>>
  /\ saves = 0
  /\ promises = [device |-> NoPromise, incognito |-> NoPromise, ip |-> NoPromise]
  /\ isLoading = FALSE
  /\ currentSession = Null
  /\ sessions = getStoredFingerprints(localStorage).sessions
  /\ recommendations = Null
  /\ produced = NoCall
  /\ TrackerAtRest

\* generateFingerprint up to its await: called by the useEffect and by the
\* button, which is disabled while isLoading
StartGenerate ==
  /\ pc = "idle"
  /\ ~isLoading
  /\ saves < MaxAnalyses
  /\ isLoading' = TRUE
  /\ promises' = [device |-> Pending, incognito |-> Pending, ip |-> Pending]
  /\ pc' = "awaiting"
  /\ UNCHANGED <<producerVars, localStorage, session, score, riskFactors, result, callLog, saves,
                 currentSession, sessions, recommendations, recorded>>

\* everything but the promises stays as it is
OnlyPromises ==
  UNCHANGED <<producerVars, localStorage, session, pc, score, riskFactors, result, callLog, saves,
              isLoading, currentSession, sessions, recommendations, recorded>>

\* generateDeviceFingerprint() settles
SettleDevice ==
  /\ promises.device = Pending
  /\ \E library \in FingerprintJSResults, fallbackId \in FallbackIds :
       promises' = [promises EXCEPT !.device = generateDeviceFingerprint(library, fallbackId)]
  /\ OnlyPromises

\* detectIncognito() settles
SettleIncognito ==
  /\ promises.incognito = Pending
  /\ \E incognitoCount \in IncognitoCounts :
       promises' = [promises EXCEPT !.incognito = detectIncognito(incognitoCount, IncognitoTests)]
  /\ OnlyPromises

\* analyzeIP() settles
SettleIp ==
  /\ promises.ip = Pending
  /\ \E analysis \in IpResults :
       promises' = [promises EXCEPT !.ip = Fulfilled(analysis)]
  /\ OnlyPromises

\* A producer's promise rejects.  Each producer catches what its try block
\* covers, so this takes a throw outside of it (in a catch block, say);
\* generateFingerprint provides for it.
Reject ==
  /\ \E producer \in {"device", "incognito", "ip"} :
       /\ promises[producer] = Pending
       /\ promises' = [promises EXCEPT ![producer] = Rejected]
  /\ OnlyPromises

\* A wait that never ends: neither callback of webkitRequestFileSystem or of
\* indexedDB.open is called (detectIncognito), or a service holds its
\* answer back (the fetch of getClientIP, whose `timeout` is no option of
\* fetch).  Nothing in the code gives up on such a wait.
Stall ==
  /\ \E producer \in {"incognito", "ip"} :
       /\ promises[producer] = Pending
       /\ promises' = [promises EXCEPT ![producer] = Stalled]
  /\ OnlyPromises

\* Continue aborting on the first rejected promise, as after Promise.all
Continue_failFast ==
  /\ pc = "awaiting"
  /\ \A producer \in DOMAIN promises : Settled(promises[producer])
  /\ IF \E producer \in DOMAIN promises : promises[producer].status = "rejected"
     THEN UNCHANGED <<producerVars, localStorage, session, score, riskFactors, result, callLog,
                      saves, currentSession, sessions, recorded>>
     ELSE LET sessionData == SessionDataOf(promises)
              locals == Accumulate(sessionData, localStorage)
              returned == ReturnValue(locals.score)
              saved == saveFingerprint(localStorage, FingerprintSession(sessionData, returned))
          IN /\ session' = sessionData
             /\ score' = returned.riskScore * ScoreScale
             /\ riskFactors' = locals.riskFactors
             /\ result' = returned
             /\ callLog' = LogCall(callLog, sessionData, returned, localStorage)
             /\ currentSession' = FingerprintSession(sessionData, returned)
             /\ localStorage' = saved
             /\ recorded' = Record(recorded, FingerprintSession(sessionData, returned))
             /\ saves' = saves + 1
             /\ sessions' = getStoredFingerprints(saved).sessions
  /\ isLoading' = FALSE
  /\ promises' = [device |-> NoPromise, incognito |-> NoPromise, ip |-> NoPromise]
  /\ pc' = "idle"
  /\ UNCHANGED <<recommendations, producerVars>>

\* Continue saving the session before it is scored
Continue_savesFirst ==
  /\ pc = "awaiting"
  /\ \A producer \in DOMAIN promises : Settled(promises[producer])
  /\ LET sessionData == SessionDataOf(promises)
         early == saveFingerprint(localStorage,
                    FingerprintSession(sessionData, [riskScore |-> 0, riskLevel |-> "LOW"]))
         locals == Accumulate(sessionData, early)
         returned == ReturnValue(locals.score)
     IN /\ session' = sessionData
        /\ score' = returned.riskScore * ScoreScale
        /\ riskFactors' = locals.riskFactors
        /\ result' = returned
        /\ callLog' = LogCall(callLog, sessionData, returned, early)
        /\ currentSession' = FingerprintSession(sessionData, returned)
        /\ localStorage' = early
        /\ recorded' = Record(recorded, FingerprintSession(sessionData, returned))
        /\ saves' = saves + 1
        /\ sessions' = getStoredFingerprints(early).sessions
  /\ isLoading' = FALSE
  /\ promises' = [device |-> NoPromise, incognito |-> NoPromise, ip |-> NoPromise]
  /\ pc' = "idle"
  /\ UNCHANGED <<recommendations, producerVars>>

\* generateFingerprint from its await to its end, once Promise.allSettled
\* has resolved: sessionData, calculateRiskScore, setCurrentSession,
\* saveFingerprint, setSessions, and setIsLoading(false) in the finally
\* block.  The promises are locals and gone afterwards.
Continue ==
  /\ pc = "awaiting"
  /\ \A producer \in DOMAIN promises : Settled(promises[producer])
  /\ LET sessionData == SessionDataOf(promises)
         locals == Accumulate(sessionData, localStorage)
         returned == ReturnValue(locals.score)
         saved == saveFingerprint(localStorage, FingerprintSession(sessionData, returned))
     IN /\ session' = sessionData
        /\ score' = returned.riskScore * ScoreScale
        /\ riskFactors' = locals.riskFactors
        /\ result' = returned
        /\ callLog' = LogCall(callLog, sessionData, returned, localStorage)
        /\ currentSession' = FingerprintSession(sessionData, returned)
        /\ localStorage' = saved
        /\ recorded' = Record(recorded, FingerprintSession(sessionData, returned))
        /\ saves' = saves + 1
        /\ sessions' = getStoredFingerprints(saved).sessions
  /\ isLoading' = FALSE
  /\ promises' = [device |-> NoPromise, incognito |-> NoPromise, ip |-> NoPromise]
  /\ pc' = "idle"
  /\ UNCHANGED <<recommendations, producerVars>>

\* clearHistory: clearStoredFingerprints and setSessions([])
ClearHistory ==
  /\ localStorage' = clearStoredFingerprints(localStorage)
  /\ sessions' = <<>>
  /\ recorded' = NothingRecorded
  /\ UNCHANGED <<producerVars, session, pc, score, riskFactors, result, callLog, saves,
                 promises, isLoading, currentSession, recommendations>>

NextPage ==
  \/ StartGenerate
  \/ SettleDevice
  \/ SettleIncognito
  \/ SettleIp
  \/ Reject
  \/ Stall
  \/ Continue
  \/ ClearHistory

SpecPage == InitPage /\ [][NextPage]_vars

\* What a step of Continue does to the position and the loading flag; of the
\* steps of NextPage exactly those of Continue are steps of Resumes.
Resumes ==
  /\ pc = "awaiting"
  /\ \A producer \in DOMAIN promises : Settled(promises[producer])
  /\ pc' = "idle"
  /\ isLoading' = FALSE

\* Every step of the page is a step of Continue exactly if it is one of Resumes.
ResumesIsContinue == [][Resumes <=> Continue]_vars

\* The event loop runs a continuation that is ready, and a producer that
\* is at work and not stalled comes to an end; the user need not click.
SpecPageLive ==
  /\ InitPage
  /\ [][NextPage]_vars
  /\ WF_<<pc, isLoading>>(Resumes)
  /\ WF_vars(SettleDevice)
  /\ WF_vars(SettleIncognito)
  /\ WF_vars(SettleIp)

-----------------------------------------------------------------------------
(* getRiskRecommendations, called with any level and any score *)

\* riskLevel: string
RiskLevelArguments == {"LOW", "MEDIUM", "HIGH", "CRITICAL", "UNKNOWN"}

\* riskScore: number
RiskScoreArguments == 0..100

InitRecommend ==
  /\ localStorage = FreshStorage
  /\ recorded = NothingRecorded
  /\ session = NoSession
  /\ pc = "idle"
  /\ score = InitialLocals.score
  /\ riskFactors = InitialLocals.riskFactors
  /\ result = NoResult
  /\ callLog = <<>>
  /\ saves = 0
  /\ PageAtRest
  /\ produced = NoCall
  /\ TrackerAtRest

GetRiskRecommendations ==
  /\ \E riskLevel \in RiskLevelArguments, riskScore \in RiskScoreArguments :
       recommendations' = [riskLevel |-> riskLevel, riskScore |-> riskScore,
                           list |-> getRiskRecommendations(riskLevel, riskScore)]
  /\ UNCHANGED <<producerVars, localStorage, session, pc, score, riskFactors, result, callLog, saves,
                 promises, isLoading, currentSession, sessions, recorded>>

NextRecommend == GetRiskRecommendations

SpecRecommend == InitRecommend /\ [][NextRecommend]_vars

-----------------------------------------------------------------------------
(* ip-analysis.client: analyzeIP.  An address is held by the sequence of   *)
(* its numbers (four for IPv4, eight for IPv6); the regular expressions of  *)
(* the code test the leading numbers.  A remote service is taken by the     *)
(* answer it gives: Failed when the fetch or response.json() throws, else   *)
(* the fields of the answer that the code reads.                            *)

\* [...new Set(array)]: the first occurrence of each element, in order
RECURSIVE newSet(_)
newSet(array) ==
  IF array = <<>> THEN <<>>
  ELSE LET front == newSet(SubSeq(array, 1, Len(array) - 1))
           last == array[Len(array)]
       IN IF includes(front, last) THEN front ELSE Append(front, last)

\* if (cond) array.push(x)
pushIf(array, cond, x) == IF cond THEN Append(array, x) ELSE array

\* array.flatMap(r => r.threatTypes || [])
RECURSIVE flatMapThreatTypes(_)
flatMapThreatTypes(array) ==
  IF array = <<>> THEN <<>>
  ELSE array[1].threatTypes \o flatMapThreatTypes(Tail(array))

\* array.some(r => r[field])
some(array, field) == \E i \in DOMAIN array : array[i][field]

\* array.reduce((sum, r) => sum + (r.riskScore || 0), 0)
RECURSIVE sumRiskScore(_)
sumRiskScore(array) ==
  IF array = <<>> THEN 0 ELSE array[1].riskScore + sumRiskScore(Tail(array))

\* Math.max(...array.map(r => r.riskScore || 0)), for a non-empty array
maxRiskScore(array) ==
  array[CHOOSE i \in DOMAIN array : \A j \in DOMAIN array :
          array[j].riskScore <= array[i].riskScore].riskScore

\* Math.round(sum / count) for integers, count > 0: floor(sum / count + 0.5)
RoundedMean(sum, count) == (2 * sum + count) \div (2 * count)

\* the fetch of a service threw, or its response was no JSON
Failed == [failed |-> TRUE]

\* what a detection service reports when it finds nothing
NothingDetected ==
  [isVPN |-> FALSE, isTor |-> FALSE, isProxy |-> FALSE, riskScore |-> 0, threatTypes |-> <<>>]

\* checkProxyCheckIO, for data[ip] of the answer
checkProxyCheckIO(ipData) ==
  IF ipData = Failed THEN Throw
  ELSE IF ipData.status = "ok"
  THEN Return([isVPN |-> ipData.type = "VPN",
               isTor |-> ipData.type = "TOR",
               isProxy |-> ipData.proxy = "yes",
               riskScore |-> ipData.risk,
               threatTypes |->
                 pushIf(pushIf(pushIf(pushIf(<<>>, ipData.proxy = "yes", "proxy"),
                                      ipData.type = "VPN", "vpn"),
                               ipData.type = "TOR", "tor"),
                        ipData.risk > 75, "high-risk")])
  ELSE Return(NothingDetected)

\* checkVPNAPI, for the answer (security: the data.security of the answer,
\* Null when it has none)
checkVPNAPI(data) ==
  IF data = Failed THEN Throw
  ELSE IF data.security # Null
  THEN LET security == data.security IN
       Return([isVPN |-> security.vpn,
               isTor |-> security.tor,
               isProxy |-> security.proxy,
               riskScore |-> IF security.threat THEN 80 ELSE IF security.vpn THEN 60 ELSE 0,
               threatTypes |->
                 pushIf(pushIf(pushIf(pushIf(pushIf(<<>>, security.vpn, "vpn"),
                                             security.tor, "tor"),
                                      security.proxy, "proxy"),
                               security.anonymous, "anonymous"),
                        security.threat, "threat")])
  ELSE Return(NothingDetected)

\* checkIPHub, for the answer (hostnameHasVpn: data.hostname &&
\* data.hostname.includes('vpn'))
checkIPHub(data) ==
  IF data = Failed THEN Throw
  ELSE Return([isVPN |-> data.block = 1,
               isTor |-> data.block = 2,
               isProxy |-> data.block = 1,
               riskScore |-> IF data.block > 0 THEN 70 ELSE 0,
               threatTypes |->
                 pushIf(pushIf((IF data.block = 1 THEN <<"vpn", "proxy">> ELSE <<>>),
                               data.block = 2, "tor"),
                        data.hostnameHasVpn, "vpn")])

\* /^(10|172|192\.168)\./.test(ip)
LooksPrivate(ip) ==
  Len(ip.numbers) = 4 /\ (ip.numbers[1] = 10 \/ ip.numbers[1] = 172 \/ (ip.numbers[1] = 192 /\ ip.numbers[2] = 168))

\* checkVPNHeuristics
checkVPNHeuristics(ip) ==
  LET private == LooksPrivate(ip)
      sequential == Len(ip.numbers) = 4 /\ ip.numbers[4] % 10 = 0
      riskScore == (IF private THEN 40 ELSE 0) + (IF sequential THEN 20 ELSE 0)
  IN [isVPN |-> riskScore > 30,
      isTor |-> FALSE,
      isProxy |-> riskScore > 20,
      riskScore |-> riskScore,
      threatTypes |-> pushIf(pushIf(<<>>, private, "private-ip"),
                             sequential, "sequential-pattern")]

\* the values of the calls that returned, in order
RECURSIVE fulfilledValues(_)
fulfilledValues(results) ==
  IF results = <<>> THEN <<>>
  ELSE (IF results[1].threw THEN <<>> ELSE <<results[1].value>>)
         \o fulfilledValues(Tail(results))

\* checkVPNStatus, for the answers of its three services
checkVPNStatus(ip, proxyCheck, vpnApi, ipHub) ==
  LET validResults == fulfilledValues(<<checkProxyCheckIO(proxyCheck),
                                        checkVPNAPI(vpnApi), checkIPHub(ipHub)>>)
  IN IF validResults = <<>> THEN checkVPNHeuristics(ip)
     ELSE [isVPN |-> some(validResults, "isVPN"),
           isTor |-> some(validResults, "isTor"),
           isProxy |-> some(validResults, "isProxy"),
           riskScore |-> RoundedMean(sumRiskScore(validResults), Len(validResults)),
           threatTypes |-> newSet(flatMapThreatTypes(validResults))]

\* isKnownBadIP
isKnownBadIP(ip) == Len(ip.numbers) = 4 /\ ip.numbers[1] \in {0, 255, 224}

checkDNSBlacklists(ip) ==
  [isVPN |-> FALSE, isTor |-> FALSE, isProxy |-> FALSE,
   riskScore |-> IF isKnownBadIP(ip) THEN 90 ELSE 0,
   threatTypes |-> pushIf(<<>>, isKnownBadIP(ip), "blacklisted")]

checkKnownVPNRanges(ip) ==
  LET isKnownVPN == Len(ip.numbers) = 4 /\ <<ip.numbers[1], ip.numbers[2]>> \in
                      {<<185, 159>>, <<103, 231>>, <<146, 70>>, <<89, 187>>, <<195, 181>>}
  IN [isVPN |-> isKnownVPN, isTor |-> FALSE, isProxy |-> FALSE,
      riskScore |-> IF isKnownVPN THEN 75 ELSE 0,
      threatTypes |-> IF isKnownVPN THEN <<"known-vpn">> ELSE <<>>]

checkHostingProviders(ip) ==
  LET isHosting == Len(ip.numbers) = 4 /\
                     (\/ ip.numbers[1] \in {54, 34, 40}
                      \/ <<ip.numbers[1], ip.numbers[2]>> \in {<<167, 172>>, <<159, 89>>, <<138, 197>>})
  IN [isVPN |-> FALSE, isTor |-> FALSE, isProxy |-> FALSE,
      riskScore |-> IF isHosting THEN 30 ELSE 0,
      threatTypes |-> IF isHosting THEN <<"hosting-provider">> ELSE <<>>]

checkReputationDatabases(ip) ==
  LET isSuspicious == Len(ip.numbers) = 4 /\
                        (\/ ip.numbers[1] = 10
                         \/ (ip.numbers[1] = 172 /\ ip.numbers[2] \in 16..31)
                         \/ (ip.numbers[1] = 192 /\ ip.numbers[2] = 168)
                         \/ (ip.numbers[1] = 169 /\ ip.numbers[2] = 254)
                         \/ ip.numbers[1] = 127)
  IN [isVPN |-> FALSE, isTor |-> FALSE, isProxy |-> isSuspicious,
      riskScore |-> IF isSuspicious THEN 50 ELSE 0,
      threatTypes |-> IF isSuspicious THEN <<"private-ip", "suspicious">> ELSE <<>>]

\* performAdditionalSecurityChecks: its four checks read the address only
\* and all return
performAdditionalSecurityChecks(ip) ==
  LET results == <<checkDNSBlacklists(ip), checkKnownVPNRanges(ip),
                   checkHostingProviders(ip), checkReputationDatabases(ip)>>
  IN [isVPN |-> some(results, "isVPN"),
      isTor |-> some(results, "isTor"),
      isProxy |-> some(results, "isProxy"),
      riskScore |-> maxRiskScore(results),
      threatTypes |-> newSet(flatMapThreatTypes(results))]

\* data?.field, for a flag
flagOf(data, field) == data # Null /\ field \in DOMAIN data /\ data[field]

\* (data?.riskScore || 0)
riskScoreOr0(data) == IF data # Null THEN data.riskScore ELSE 0

\* calculateCombinedRiskScore without the final Math.min
calculateCombinedRiskScore_unbounded(vpnData, securityData, geoData) ==
  MathRound(
      (IF flagOf(vpnData, "isVPN") THEN 500 ELSE 0)
    + (IF flagOf(vpnData, "isTor") THEN 800 ELSE 0)
    + (IF flagOf(vpnData, "isProxy") THEN 400 ELSE 0)
    + (IF flagOf(securityData, "isVPN") THEN 300 ELSE 0)
    + (IF flagOf(securityData, "isTor") THEN 600 ELSE 0)
    + (IF flagOf(securityData, "isProxy") THEN 250 ELSE 0)
    + riskScoreOr0(vpnData) * 6
    + riskScoreOr0(securityData) * 4
    + (IF flagOf(geoData, "isHosting") THEN 200 ELSE 0)
    + (IF geoData # Null /\ geoData.country \in {"Unknown", "Anonymous"} THEN 300 ELSE 0))

\* calculateCombinedRiskScore, the sum held in tenths:
\* Math.min(Math.round(score), 100)
calculateCombinedRiskScore(vpnData, securityData, geoData) ==
  Min(MathRound(
          (IF flagOf(vpnData, "isVPN") THEN 500 ELSE 0)
        + (IF flagOf(vpnData, "isTor") THEN 800 ELSE 0)
        + (IF flagOf(vpnData, "isProxy") THEN 400 ELSE 0)
        + (IF flagOf(securityData, "isVPN") THEN 300 ELSE 0)
        + (IF flagOf(securityData, "isTor") THEN 600 ELSE 0)
        + (IF flagOf(securityData, "isProxy") THEN 250 ELSE 0)
        + riskScoreOr0(vpnData) * 6
        + riskScoreOr0(securityData) * 4
        + (IF flagOf(geoData, "isHosting") THEN 200 ELSE 0)
        + (IF geoData # Null /\ geoData.country \in {"Unknown", "Anonymous"} THEN 300 ELSE 0)),
      100)

\* analyzeIP keeping every threat of both lists
analyzeIP_keepsAllThreats(ip, geoData, vpnData, additionalChecks) ==
  IF ip = Null THEN Null
  ELSE LET geo == IF geoData.threw THEN Null ELSE geoData.value
           vpn == IF vpnData.threw THEN Null ELSE vpnData.value
           security == IF additionalChecks.threw THEN Null ELSE additionalChecks.value
           combinedThreats == (IF vpn # Null THEN vpn.threatTypes ELSE <<>>)
                                \o (IF security # Null THEN security.threatTypes ELSE <<>>)
       IN [ip |-> ip,
           isVPN |-> flagOf(vpn, "isVPN") \/ flagOf(security, "isVPN"),
           isTor |-> flagOf(vpn, "isTor") \/ flagOf(security, "isTor"),
           isProxy |-> flagOf(vpn, "isProxy") \/ flagOf(security, "isProxy"),
           riskScore |-> calculateCombinedRiskScore(vpn, security, geo),
           threatTypes |-> combinedThreats]

\* analyzeIP, for the address getClientIP found (Null: none) and the three
\* settled promises of Promise.allSettled (country, region, city and isp of
\* the result are left out)
analyzeIP(ip, geoData, vpnData, additionalChecks) ==
  IF ip = Null THEN Null
  ELSE LET geo == IF geoData.threw THEN Null ELSE geoData.value
           vpn == IF vpnData.threw THEN Null ELSE vpnData.value
           security == IF additionalChecks.threw THEN Null ELSE additionalChecks.value
           combinedThreats == (IF vpn # Null THEN vpn.threatTypes ELSE <<>>)
                                \o (IF security # Null THEN security.threatTypes ELSE <<>>)
       IN [ip |-> ip,
           isVPN |-> flagOf(vpn, "isVPN") \/ flagOf(security, "isVPN"),
           isTor |-> flagOf(vpn, "isTor") \/ flagOf(security, "isTor"),
           isProxy |-> flagOf(vpn, "isProxy") \/ flagOf(security, "isProxy"),
           riskScore |-> calculateCombinedRiskScore(vpn, security, geo),
           threatTypes |-> newSet(combinedThreats)]

\* getGeoLocation, for the answers of its two services: the first answer
\* that is no failure is parsed (the second service reports no hosting flag)
getGeoLocation(ipApi, ipapiCo) ==
  IF ipApi # Failed /\ ipApi.status # "fail"
  THEN Return([country |-> ipApi.country, isHosting |-> ipApi.hosting])
  ELSE IF ipapiCo # Failed /\ ~ipapiCo.error
  THEN Return([country |-> ipapiCo.country_name])
  ELSE Throw

\* addresses getClientIP can find: an ordinary one, one in a known VPN range
\* (ending in a multiple of 10), one of a hosting provider, private ones, one
\* of the 172 block that is public, a blacklisted one, an IPv6 one
ClientIPs ==
  { [numbers |-> n] :
      n \in { <<8, 8, 8, 8>>, <<185, 159, 1, 10>>, <<54, 10, 0, 1>>, <<10, 0, 0, 5>>,
              <<192, 168, 1, 20>>, <<172, 217, 4, 4>>, <<0, 1, 2, 3>>,
              <<8193, 3512, 0, 0, 0, 0, 0, 1>> } }

\* answers of proxycheck.io; risk is whatever the service says
ProxyCheckAnswers ==
  { Failed,
    [status |-> "denied", proxy |-> "no", type |-> "", risk |-> 0],
    [status |-> "ok", proxy |-> "no", type |-> "Residential", risk |-> 0],
    [status |-> "ok", proxy |-> "yes", type |-> "VPN", risk |-> 81],
    [status |-> "ok", proxy |-> "yes", type |-> "TOR", risk |-> 100],
    [status |-> "ok", proxy |-> "no", type |-> "Business", risk |-> -50] }

\* answers of vpnapi.io
VpnApiAnswers ==
  { Failed,
    [security |-> Null],
    [security |-> [vpn |-> FALSE, tor |-> FALSE, proxy |-> FALSE,
                   anonymous |-> FALSE, threat |-> FALSE]],
    [security |-> [vpn |-> TRUE, tor |-> FALSE, proxy |-> TRUE,
                   anonymous |-> TRUE, threat |-> FALSE]],
    [security |-> [vpn |-> FALSE, tor |-> TRUE, proxy |-> FALSE,
                   anonymous |-> TRUE, threat |-> TRUE]] }

\* answers of iphub.info
IpHubAnswers ==
  { Failed,
    [block |-> 0, hostnameHasVpn |-> FALSE],
    [block |-> 0, hostnameHasVpn |-> TRUE],
    [block |-> 1, hostnameHasVpn |-> TRUE],
    [block |-> 2, hostnameHasVpn |-> FALSE] }

\* answers of ip-api.com and of ipapi.co
IpApiAnswers ==
  { Failed,
    [status |-> "fail", country |-> "", hosting |-> FALSE],
    [status |-> "success", country |-> "France", hosting |-> FALSE],
    [status |-> "success", country |-> "Germany", hosting |-> TRUE] }

IpapiCoAnswers ==
  { Failed,
    [error |-> TRUE, country_name |-> ""],
    [error |-> FALSE, country_name |-> "Unknown"] }

\* a call of analyzeIP and what it meets: the address, the answers of the
\* services, and whether the promise of checkVPNStatus or of
\* performAdditionalSecurityChecks rejects (neither has a throw of its own,
\* analyzeIP provides for both)
AnalyzeIPCalls ==
  { [call |-> "analyzeIP",
     input |-> [ip |-> ip, proxyCheck |-> proxyCheck, vpnApi |-> vpnApi, ipHub |-> ipHub,
                ipApi |-> ipApi, ipapiCo |-> ipapiCo,
                vpnRejects |-> vpnRejects, securityRejects |-> securityRejects],
     output |-> Null] :
      ip \in ClientIPs, proxyCheck \in ProxyCheckAnswers, vpnApi \in VpnApiAnswers,
      ipHub \in IpHubAnswers, ipApi \in IpApiAnswers, ipapiCo \in IpapiCoAnswers,
      vpnRejects \in BOOLEAN, securityRejects \in BOOLEAN }
  \cup
  { [call |-> "analyzeIP",
     input |-> [ip |-> Null, proxyCheck |-> Failed, vpnApi |-> Failed, ipHub |-> Failed,
                ipApi |-> Failed, ipapiCo |-> Failed,
                vpnRejects |-> FALSE, securityRejects |-> FALSE],
     output |-> Null] }

\* vpnData, as Promise.allSettled gives it to analyzeIP
VpnDataOf(in) ==
  IF in.vpnRejects THEN Throw
  ELSE Return(checkVPNStatus(in.ip, in.proxyCheck, in.vpnApi, in.ipHub))

\* additionalChecks, as Promise.allSettled gives it to analyzeIP
AdditionalChecksOf(in) ==
  IF in.securityRejects THEN Throw ELSE Return(performAdditionalSecurityChecks(in.ip))

\* how one test of detectIncognito ends: it returns with isIncognito true or
\* false, or its promise rejects.  As written only testRequestFileSystem
\* has a throw outside a try block and testPermissions never says true;
\* detectIncognito provides for every outcome of every test.
TestOutcomes ==
  { Return([isIncognito |-> TRUE]), Return([isIncognito |-> FALSE]), Throw }

\* validResults.filter(r => r.isIncognito).length
incognitoCountOf(validResults) ==
  Cardinality({i \in DOMAIN validResults : validResults[i].isIncognito})

\* a call of detectIncognito and the outcomes of its tests, in order
DetectIncognitoCalls ==
  { [call |-> "detectIncognito", input |-> results, output |-> Null] :
      results \in [1..IncognitoTests -> TestOutcomes] }

\* detectIncognito: what it returns, with the incognitoCount and totalTests
\* of its details
DetectIncognito ==
  /\ produced.call = "detectIncognito"
  /\ produced.output = Null
  /\ LET validResults == fulfilledValues(produced.input)
         incognitoCount == incognitoCountOf(validResults)
         totalTests == Len(validResults)
         returned == detectIncognito(incognitoCount, totalTests).value
     IN produced' = [produced EXCEPT !.output =
                       Return([isIncognito |-> returned.isIncognito,
                               confidence |-> returned.confidence,
                               incognitoCount |-> incognitoCount,
                               totalTests |-> totalTests])]
  /\ UNCHANGED <<localStorage, session, pc, score, riskFactors, result, callLog, saves,
                 pageVars, recorded, trackerVars>>

\* the producers, each called on its own with what it can meet
InitProducers ==
  /\ produced \in AnalyzeIPCalls \cup DetectIncognitoCalls
  /\ TrackerAtRest
  /\ localStorage = FreshStorage
  /\ recorded = NothingRecorded
  /\ session = NoSession
  /\ pc = "idle"
  /\ score = InitialLocals.score
  /\ riskFactors = InitialLocals.riskFactors
  /\ result = NoResult
  /\ callLog = <<>>
  /\ saves = 0
  /\ PageAtRest

AnalyzeIP ==
  /\ produced.call = "analyzeIP"
  /\ produced.output = Null
  /\ LET in == produced.input IN
     produced' = [produced EXCEPT !.output =
                    Return(analyzeIP(in.ip, getGeoLocation(in.ipApi, in.ipapiCo),
                                     VpnDataOf(in), AdditionalChecksOf(in)))]
  /\ UNCHANGED <<localStorage, session, pc, score, riskFactors, result, callLog, saves,
                 pageVars, recorded, trackerVars>>

NextProducers == AnalyzeIP \/ DetectIncognito

SpecProducers == InitProducers /\ [][NextProducers]_vars

-----------------------------------------------------------------------------
(* One call of generateFingerprint on a freshly loaded page, from its await *)
(* on, with detectIncognito settling for every outcome of its tests         *)

\* generateFingerprint has been called and waits for its three promises
InitGenerate ==
  /\ localStorage = FreshStorage
  /\ recorded = NothingRecorded
  /\ session = NoSession
  /\ pc = "awaiting"
  /\ score = InitialLocals.score
  /\ riskFactors = InitialLocals.riskFactors
  /\ result = NoResult
  /\ callLog = <<>>
  /\ saves = 0
  /\ promises = [device |-> Pending, incognito |-> Pending, ip |-> Pending]
  /\ isLoading = TRUE
  /\ currentSession = Null
  /\ sessions = <<>>
  /\ recommendations = Null
  /\ produced = NoCall
  /\ TrackerAtRest

\* detectIncognito() settles, whatever its tests come to
SettleIncognitoTests ==
  /\ promises.incognito = Pending
  /\ \E results \in [1..IncognitoTests -> TestOutcomes] :
       LET validResults == fulfilledValues(results) IN
       promises' = [promises EXCEPT !.incognito =
                      detectIncognito(incognitoCountOf(validResults), Len(validResults))]
  /\ OnlyPromises

NextGenerate ==
  \/ SettleDevice
  \/ SettleIncognitoTests
  \/ SettleIp
  \/ Reject
  \/ Continue

SpecGenerate == InitGenerate /\ [][NextGenerate]_vars

-----------------------------------------------------------------------------
(* A BehaviorTracker, its listeners called by the page's events, getAnalysis *)
(* and reset called by its owner                                             *)

\* calls and events followed after the earlier events
MaxEvents == 3

InitTracker ==
  /\ tracker = FreshTracker.tracker
  /\ arrays = FreshTracker.arrays
  /\ now = FreshTracker.now
  /\ lastAnalysis = Null
  /\ \E list \in EarlierEvents : events = [NoEvents EXCEPT !.earlier = list]
  /\ produced = NoCall
  /\ localStorage = FreshStorage
  /\ recorded = NothingRecorded
  /\ session = NoSession
  /\ pc = "idle"
  /\ score = InitialLocals.score
  /\ riskFactors = InitialLocals.riskFactors
  /\ result = NoResult
  /\ callLog = <<>>
  /\ saves = 0
  /\ PageAtRest

\* everything but the tracker stays as it is
OnlyTracker ==
  UNCHANGED <<localStorage, session, pc, score, riskFactors, result, callLog, saves,
              pageVars, recorded, produced>>

\* the array of tags the last analysis refers to, if there is one
AnalysisArrays == IF lastAnalysis = Null THEN {} ELSE {lastAnalysis.suspiciousPatterns}

\* the page dispatches e to the listener registered for its type: the next
\* of the earlier events while there are any, any event after them
Dispatch(e) ==
  /\ IF events.earlier # <<>>
     THEN /\ e = Head(events.earlier)
          /\ events' = [events EXCEPT !.earlier = Tail(@), !.last = e.type]
     ELSE /\ events.count < MaxEvents
          /\ events' = [events EXCEPT !.count = @ + 1, !.last = e.type]
  /\ LET st == dispatch([tracker |-> tracker, arrays |-> arrays, now |-> now], e) IN
       /\ tracker' = st.tracker
       /\ arrays' = st.arrays
       /\ now' = st.now
  /\ UNCHANGED lastAnalysis
  /\ OnlyTracker

MouseMove == \E e \in MouseMoveEvents : Dispatch(e)

KeyDown == \E e \in OtherEvents("keydown") : Dispatch(e)

Scroll == \E e \in OtherEvents("scroll") : Dispatch(e)

Click == \E e \in OtherEvents("click") : Dispatch(e)

\* getAnalysis(): the spread makes a new array with the tags of the moment
GetAnalysis ==
  /\ events.earlier = <<>>
  /\ events.count < MaxEvents
  /\ LET copyId == newArray({tracker.suspiciousPatterns})
         returned == getAnalysis(tracker, now, copyId)
     IN /\ lastAnalysis' = returned
        /\ arrays' = collect([arrays EXCEPT ![copyId] = arrays[tracker.suspiciousPatterns]],
                             {tracker.suspiciousPatterns, returned.suspiciousPatterns})
  /\ events' = [events EXCEPT !.count = @ + 1, !.last = "getAnalysis"]
  /\ UNCHANGED <<tracker, now>>
  /\ OnlyTracker

\* reset(): counters to 0, both times to now, three new empty arrays
Reset ==
  /\ events.earlier = <<>>
  /\ events.count < MaxEvents
  /\ LET id == newArray({tracker.suspiciousPatterns} \cup AnalysisArrays) IN
       /\ tracker' = NewTracker(now, id)
       /\ arrays' = collect([arrays EXCEPT ![id] = <<>>], {id} \cup AnalysisArrays)
  /\ events' = [events EXCEPT !.count = @ + 1, !.last = "reset"]
  /\ UNCHANGED <<now, lastAnalysis>>
  /\ OnlyTracker

NextTracker == MouseMove \/ KeyDown \/ Scroll \/ Click \/ GetAnalysis \/ Reset

SpecTracker == InitTracker /\ [][NextTracker]_vars

-----------------------------------------------------------------------------
(* The scoring rules as the specification lists them (section 4.1), in      *)
(* tenths of a point, for a session s and resolved history counters.        *)

Points(p) == p * ScoreScale

\* step 2, device confidence
RuleDevice(s) ==
  LET c == s.deviceFingerprint.confidence IN
  IF ConfBelow(c, 3) THEN Points(40)
  ELSE IF ConfBelow(c, 5) THEN Points(25)
  ELSE IF ConfBelow(c, 7) THEN Points(10) ELSE 0

\* step 3, privacy mode
RulePrivacy(s) ==
  IF ~s.incognitoDetection.isIncognito THEN 0
  ELSE IF ConfAbove(s.incognitoDetection.confidence, 8) THEN Points(35)
  ELSE IF ConfAbove(s.incognitoDetection.confidence, 5) THEN Points(25)
  ELSE Points(15)

\* step 4, network
RuleNetwork(s) ==
  IF s.ipAnalysis = Null THEN 0
  ELSE LET n == s.ipAnalysis
           tags == {n.threatTypes[i] : i \in DOMAIN n.threatTypes} IN
       n.riskScore * 4
       + (IF n.isVPN THEN Points(30) ELSE 0)
       + (IF n.isTor THEN Points(50) ELSE 0)
       + (IF n.isProxy THEN Points(20) ELSE 0)
       + (IF "hosting-provider" \in tags THEN Points(15) ELSE 0)
       + (IF "known-vpn" \in tags THEN Points(25) ELSE 0)
       + (IF "blacklisted" \in tags THEN Points(40) ELSE 0)
       + (IF "high-risk" \in tags THEN Points(30) ELSE 0)

\* steps 5 to 8, behaviour
RuleBehavior(s) ==
  LET b == s.behaviorAnalysis
      tags == {b.suspiciousPatterns[i] : i \in DOMAIN b.suspiciousPatterns}
      total == b.mouseMovements + b.keystrokes + b.scrollEvents IN
  Points(12) * Len(b.suspiciousPatterns)
  + (IF "inhuman-mouse-speed" \in tags THEN Points(20) ELSE 0)
  + (IF "inhuman-typing-speed" \in tags THEN Points(25) ELSE 0)
  + (IF "consistent-keystroke-timing" \in tags THEN Points(30) ELSE 0)
  + (IF "straight-mouse-lines" \in tags THEN Points(15) ELSE 0)
  + (IF b.interactionSpeed > 2000 THEN Points(25)
     ELSE IF b.interactionSpeed > 1000 THEN Points(15) ELSE 0)
  + (IF b.timeOnPage < 3000 /\ total > 100 THEN Points(35)
     ELSE IF b.timeOnPage < 5000 /\ total > 50 THEN Points(20) ELSE 0)
  + (IF b.timeOnPage > 30000 /\ total < 5 THEN Points(20) ELSE 0)

\* step 9, history
RuleDeviceHistory(deviceCount) ==
  IF deviceCount > 20 THEN Points(25) ELSE IF deviceCount > 10 THEN Points(15) ELSE 0

RuleAddressHistory(addressCount) ==
  IF addressCount > 50 THEN Points(30) ELSE IF addressCount > 20 THEN Points(20) ELSE 0

\* what the code adds for userAgent, screenResolution, timezone and language
\* (part_002, lines 158 to 204); the specification has no such step
RuleEnvironment(s) ==
  LET ua == toLowerCase(s.userAgent)
      has(kw) == strIncludes(ua, kw) IN
  (IF has(kwHeadless) \/ has(kwPhantom) \/ has(kwSelenium) \/ has(kwChromedriver)
   THEN Points(60) ELSE 0)
  + (IF has(kwPuppeteer) \/ has(kwPlaywright) \/ has(kwWebdriver) THEN Points(55) ELSE 0)
  + (IF has(kwBot) \/ has(kwCrawler) \/ has(kwSpider) THEN Points(40) ELSE 0)
  + (IF has(kwMsie) \/ has(kwInternetExplorer) THEN Points(10) ELSE 0)
  + (IF s.screenResolution \in {"0x0", "1x1"} THEN Points(45) ELSE 0)
  + (IF s.timezone \in {"", "UTC"} THEN Points(10) ELSE 0)
  + (IF s.language \in {"", "en", "en-US"} THEN Points(2) ELSE 0)

\* the counters the store holds for the session's device and address: what
\* a lookup gives when the store can be read, 0 otherwise and for no address
DeviceCounter(s, ls) ==
  IF ls.available /\ ls.item # Null /\ ls.item.text = "json" /\ ls.item.value.shape = "store"
  THEN countOr0(ls.item.value.deviceHistory, s.deviceFingerprint.visitorId)
  ELSE 0

AddressCounter(s, ls) ==
  IF s.ipAnalysis # Null /\ ls.available /\ ls.item # Null /\ ls.item.text = "json"
       /\ ls.item.value.shape = "store"
  THEN countOr0(ls.item.value.ipHistory, s.ipAnalysis.ip)
  ELSE 0

\* the sum of steps 2 to 9
RuleSum(s, deviceCount, addressCount) ==
  RuleDevice(s) + RulePrivacy(s) + RuleNetwork(s) + RuleBehavior(s)
    + RuleDeviceHistory(deviceCount) + RuleAddressHistory(addressCount)

\* steps 10 and 11
Assessment(tenths) ==
  LET points == Max(0, Min(100, (tenths + 5) \div 10)) IN
  [riskScore |-> points,
   riskLevel |-> IF points >= 85 THEN "CRITICAL" ELSE IF points >= 65 THEN "HIGH"
                 ELSE IF points >= 35 THEN "MEDIUM" ELSE "LOW"]

Returned == pc = "return"

-----------------------------------------------------------------------------
(* Claims *)

\* C1: every riskScore calculateRiskScore returns is an integer from 0 to
\* 100, whatever the sum of the penalties is before the clamp.
C1_ScoreWithinBounds ==
  result # NoResult => result.riskScore \in 0..100

\* a call has returned 100 for a sum above 100
C1_Witness ==
  /\ Returned
  /\ Accumulate(session, localStorage).score > Points(100)
  /\ result.riskScore = 100

\* C2: the riskLevel returned is determined by the clamped score alone:
\* CRITICAL iff score >= 85, HIGH iff 65..84, MEDIUM iff 35..64, LOW iff
\* score <= 34 (so the level never decreases when the score increases).
C2_LevelFollowsScore ==
  result # NoResult =>
    /\ (result.riskLevel = "CRITICAL") <=> (result.riskScore >= 85)
    /\ (result.riskLevel = "HIGH") <=> (result.riskScore \in 65..84)
    /\ (result.riskLevel = "MEDIUM") <=> (result.riskScore \in 35..64)
    /\ (result.riskLevel = "LOW") <=> (result.riskScore <= 34)

\* a call has returned the lowest CRITICAL score
C2_Witness ==
  Returned /\ result.riskScore = 85 /\ result.riskLevel = "CRITICAL"

\* C3 (as claimed): two calls of calculateRiskScore with an identical
\* session return an identical riskScore and riskLevel, whatever
\* saveFingerprint or clearStoredFingerprints calls were made in between.
C3_SameSessionSameResult ==
  (Len(callLog) = 2 /\ callLog[1].session = callLog[2].session)
    => callLog[1].result = callLog[2].result

\* C3 (amended): two calls with an identical session return an identical
\* result whenever the store's counters for the session's visitorId and ip
\* were the same at both calls; nothing else in the store matters.
C3_SameSessionSameCountersSameResult ==
  (/\ Len(callLog) = 2
   /\ callLog[1].session = callLog[2].session
   /\ callLog[1].lookups = callLog[2].lookups)
    => callLog[1].result = callLog[2].result

\* two calls with the same session and counters, with a different number of
\* stored sessions (a save or a clear came in between), returned the same
C3_Witness ==
  /\ Len(callLog) = 2
  /\ callLog[1].session = callLog[2].session
  /\ callLog[1].lookups = callLog[2].lookups
  /\ callLog[1].stored # callLog[2].stored
  /\ callLog[1].result = callLog[2].result

\* C4: a call of calculateRiskScore leaves the history store as it was: the
\* stored sessions, deviceHistory and ipHistory are the same after the call,
\* and its result is not persisted.
C4_ScoringLeavesStoreUnchanged ==
  [][callLog' # callLog => localStorage' = localStorage]_vars

\* a call has returned while the store held sessions saved before it
C4_Witness ==
  /\ Len(callLog) >= 1
  /\ saves >= 1
  /\ StoredSessionCount(localStorage) >= 1
  /\ callLog[1].stored = StoredSessionCount(localStorage)

\* C5 (as claimed): the score is clamp(round(sum of steps 2 to 9)), a
\* function of device confidence, privacy signal, network signal, behaviour
\* signal and history counters only.
C5_ScoreIsSumOfSpecifiedSteps ==
  Returned =>
    result.riskScore =
      Assessment(RuleSum(session, DeviceCounter(session, localStorage),
                         AddressCounter(session, localStorage))).riskScore

\* C5 (amended): the score is clamp(round(sum of steps 2 to 9 plus what the
\* code adds for userAgent, screenResolution, timezone and language)); it is
\* a function of the five specified inputs and of these four fields.
C5_ScoreIsSumOfStepsAndEnvironment ==
  Returned =>
    result.riskScore =
      Assessment(RuleSum(session, DeviceCounter(session, localStorage),
                         AddressCounter(session, localStorage))
                 + RuleEnvironment(session)).riskScore

\* a call has returned a score that the four fields raised
C5_Witness ==
  /\ Returned
  /\ RuleEnvironment(session) > 0
  /\ result.riskScore >
       Assessment(RuleSum(session, DeviceCounter(session, localStorage),
                          AddressCounter(session, localStorage))).riskScore

\* the values of ipAnalysis.riskScore a session is compared with
IpRiskProbes == {0, 1, 2, 38, 99, 100}

WithIpRisk(s, r) == [s EXCEPT !.ipAnalysis.riskScore = r]

\* C6: of two sessions that differ only in ipAnalysis.riskScore, scored
\* against the same store, the one with the larger riskScore never gets the
\* smaller final score.
C6_IpRiskMonotone ==
  (Returned /\ session.ipAnalysis # Null) =>
    \A r \in IpRiskProbes :
      LET other == calculateRiskScore(WithIpRisk(session, r), localStorage).riskScore IN
      /\ r >= session.ipAnalysis.riskScore => other >= result.riskScore
      /\ r <= session.ipAnalysis.riskScore => other <= result.riskScore

\* a call has returned a score below the one a larger ipAnalysis.riskScore gets
C6_Witness ==
  /\ Returned
  /\ session.ipAnalysis # Null
  /\ session.ipAnalysis.riskScore = 1
  /\ calculateRiskScore(WithIpRisk(session, 100), localStorage).riskScore > result.riskScore

\* C7: when ipAnalysis is null, and when isIncognito is false, the call
\* returns a result and the absent signal adds exactly 0: the score is the
\* one the remaining signals give.
C7_AbsentSignalsAddNothing ==
  /\ (Returned /\ session.ipAnalysis = Null) =>
       result.riskScore =
         Assessment(RuleDevice(session) + RulePrivacy(session) + RuleBehavior(session)
                    + RuleDeviceHistory(DeviceCounter(session, localStorage))
                    + RuleEnvironment(session)).riskScore
  /\ (Returned /\ ~session.incognitoDetection.isIncognito) =>
       result.riskScore =
         Assessment(RuleDevice(session) + RuleNetwork(session) + RuleBehavior(session)
                    + RuleDeviceHistory(DeviceCounter(session, localStorage))
                    + RuleAddressHistory(AddressCounter(session, localStorage))
                    + RuleEnvironment(session)).riskScore

\* a call without network and privacy signal has returned a score between
\* the clamps, with the address of earlier visits over the threshold
C7_Witness ==
  /\ Returned
  /\ session.ipAnalysis = Null
  /\ ~session.incognitoDetection.isIncognito
  /\ result.riskScore \in 1..99
  /\ StoredSessionCount(localStorage) > 20

\* the store cannot be read: localStorage refuses access, holds no item,
\* holds a string that does not parse, or holds a value without histories
StoreUnreadable(ls) ==
  \/ ~ls.available
  \/ ls.item = Null
  \/ ls.item.text # "json"
  \/ ls.item.value.shape # "store"

C9_AssessmentCarriesFactors ==
  /\ result # NoResult =>
       /\ {"riskScore", "riskLevel", "riskFactors"} \subseteq DOMAIN result
       /\ result.riskFactors = riskFactors
  /\ LET stored == getStoredFingerprints(localStorage) IN
     (saves >= 1 /\ stored.shape = "store") =>
       \A i \in DOMAIN stored.sessions :
         {"riskScore", "riskLevel", "riskFactors"} \subseteq DOMAIN stored.sessions[i]

\* C10 (as claimed): whenever the accumulated score is above 0 the factor
\* list is not empty.
C10_PositiveScoreHasFactor ==
  score > 0 => riskFactors # <<>>

\* the amounts the code adds without a label: ipRisk * 0.4, 12 for each
\* suspicious pattern, 2 for a default language
UnlabelledSum(s) ==
  (IF s.ipAnalysis # Null THEN s.ipAnalysis.riskScore * 4 ELSE 0)
  + Points(12) * Len(s.behaviorAnalysis.suspiciousPatterns)
  + (IF s.language \in {"", "en", "en-US"} THEN Points(2) ELSE 0)

\* C10 (amended): a label is only ever appended, one at a time, together
\* with an addition to the score; every addition a scoring statement makes
\* (the final Math.round apart) comes with a label appended at that moment,
\* except ipRisk * 0.4, the 12 points for each suspicious pattern and the 2
\* points for a default language; so when the score accumulated before the
\* clamp exceeds these three amounts the list is not empty.
C10_LabelledAdditions ==
  /\ [][/\ riskFactors' # riskFactors =>
             /\ Len(riskFactors') = Len(riskFactors) + 1
             /\ SubSeq(riskFactors', 1, Len(riskFactors)) = riskFactors
             /\ score' > score
        /\ (score' > score /\ pc \notin {"IpRisk", "PatternCount", "DefaultLanguage", "clamp"}) =>
             Len(riskFactors') = Len(riskFactors) + 1]_vars
  /\ [](pc = "clamp" => (score > UnlabelledSum(session) => riskFactors # <<>>))

\* the statements are done; labelled and unlabelled amounts were both added
C10_Witness ==
  /\ pc = "clamp"
  /\ UnlabelledSum(session) > 0
  /\ score > UnlabelledSum(session)
  /\ Len(riskFactors) >= 2

\* C11: the factor list one call of calculateRiskScore builds never holds a
\* label twice, and never holds both burst labels, rapid-fire-interactions
\* and fast-interaction-burst.
C11_FactorLabelsUnique ==
  /\ \A i, j \in DOMAIN riskFactors : riskFactors[i] = riskFactors[j] => i = j
  /\ ~(includes(riskFactors, "rapid-fire-interactions")
        /\ includes(riskFactors, "fast-interaction-burst"))

\* the statements are done for a session that meets both burst conditions;
\* the list holds the rapid-fire label among several
C11_Witness ==
  /\ pc = "clamp"
  /\ session.behaviorAnalysis.timeOnPage < 3000
  /\ totalInteractions(session) > 100
  /\ includes(riskFactors, "rapid-fire-interactions")
  /\ Len(riskFactors) >= 8

\* Scenario A: device confidence 0.2, privacy mode not detected, no network
\* signal, no suspicious pattern, 10 interactions over 60000 ms, both
\* history counters 0
ScenarioA(s, ls) ==
  /\ s.deviceFingerprint.confidence * 10 = 2 * ConfidenceScale
  /\ ~s.incognitoDetection.isIncognito
  /\ s.ipAnalysis = Null
  /\ s.behaviorAnalysis.suspiciousPatterns = <<>>
  /\ totalInteractions(s) = 10
  /\ s.behaviorAnalysis.timeOnPage = 60000
  /\ DeviceCounter(s, ls) = 0
  /\ AddressCounter(s, ls) = 0

\* C12 (as claimed): a Scenario A session gets score 40 and level MEDIUM.
C12_ScenarioA ==
  (Returned /\ ScenarioA(session, localStorage)) =>
    result = [riskScore |-> 40, riskLevel |-> "MEDIUM"]

\* userAgent, screenResolution, timezone and language that add nothing
PlainEnvironment(s) ==
  /\ \A kw \in {kwHeadless, kwPhantom, kwSelenium, kwChromedriver, kwPuppeteer,
                 kwPlaywright, kwWebdriver, kwBot, kwCrawler, kwSpider, kwMsie,
                 kwInternetExplorer} : ~strIncludes(toLowerCase(s.userAgent), kw)
  /\ s.screenResolution \notin {"0x0", "1x1"}
  /\ s.timezone \notin {"", "UTC"}
  /\ s.language \notin {"", "en", "en-US"}

\* C12 (amended): a Scenario A session whose userAgent, screenResolution,
\* timezone and language add nothing gets score 40 and level MEDIUM; with
\* any of them adding points the score is 40 plus those points, clamped.
C12_ScenarioAPlainEnvironment ==
  (Returned /\ ScenarioA(session, localStorage)) =>
    /\ PlainEnvironment(session) => result = [riskScore |-> 40, riskLevel |-> "MEDIUM"]
    /\ result.riskScore = Min(100, 40 + RuleEnvironment(session) \div ScoreScale)

\* a Scenario A session in a plain environment was scored 40 while
\* localStorage could be read
C12_Witness ==
  /\ Returned
  /\ ScenarioA(session, localStorage)
  /\ PlainEnvironment(session)
  /\ result.riskScore = 40
  /\ localStorage.available

\* Scenario B: device confidence 0.9, privacy mode detected with confidence
\* 0.9, Tor with riskScore 80, one suspicious pattern, interaction speed
\* 2500 a minute, device counter 25, address counter 60
ScenarioB(s, ls) ==
  /\ s.deviceFingerprint.confidence * 10 = 9 * ConfidenceScale
  /\ s.incognitoDetection.isIncognito
  /\ s.incognitoDetection.confidence * 10 = 9 * ConfidenceScale
  /\ s.ipAnalysis # Null
  /\ s.ipAnalysis.isTor
  /\ s.ipAnalysis.riskScore = 80
  /\ Len(s.behaviorAnalysis.suspiciousPatterns) = 1
  /\ s.behaviorAnalysis.interactionSpeed = 2500
  /\ DeviceCounter(s, ls) = 25
  /\ AddressCounter(s, ls) = 60

\* C13: a Scenario B session gets a sum above 100, score exactly 100 and
\* level CRITICAL.
C13_ScenarioB ==
  (Returned /\ ScenarioB(session, localStorage)) =>
    /\ Accumulate(session, localStorage).score > Points(100)
    /\ result = [riskScore |-> 100, riskLevel |-> "CRITICAL"]

\* a Scenario B session whose pattern is only counted was scored 100
C13_Witness ==
  /\ Returned
  /\ ScenarioB(session, localStorage)
  /\ ~includes(session.behaviorAnalysis.suspiciousPatterns, "consistent-keystroke-timing")
  /\ PlainEnvironment(session)
  /\ result.riskScore = 100

\* a value clamped into a range
Clamped(x, low, high) == Max(low, Min(high, x))

\* the session with its confidences clamped into [0, 1] and its riskScore,
\* event counts and timeOnPage into the non-negative numbers
Normalised(s) ==
  [s EXCEPT
     !.deviceFingerprint.confidence = Clamped(@, 0, ConfidenceScale),
     !.incognitoDetection.confidence = Clamped(@, 0, ConfidenceScale),
     !.ipAnalysis = IF @ = Null THEN @ ELSE [@ EXCEPT !.riskScore = Max(0, @)],
     !.behaviorAnalysis.mouseMovements = Max(0, @),
     !.behaviorAnalysis.keystrokes = Max(0, @),
     !.behaviorAnalysis.scrollEvents = Max(0, @),
     !.behaviorAnalysis.timeOnPage = Max(0, @)]

\* C17 (as claimed): a session is scored as the session with its values
\* clamped into range is; a negative riskScore does not lower the score.
C17_MalformedValuesNormalised ==
  Returned =>
    /\ result = calculateRiskScore(Normalised(session), localStorage)
    /\ (session.ipAnalysis # Null /\ session.ipAnalysis.riskScore < 0) =>
         result.riskScore >=
           calculateRiskScore([session EXCEPT !.ipAnalysis.riskScore = 0], localStorage).riskScore

\* the actions the specification gives for each tier, in order
ActionsForTier ==
  [CRITICAL |-> <<"Block access immediately", "Require phone verification",
                  "Send security alert to admins", "Implement temporary IP ban">>,
   HIGH |-> <<"Require additional verification", "Request SMS verification",
              "Enable enhanced monitoring", "Rate limit API requests">>,
   MEDIUM |-> <<"Monitor user behavior closely", "Track usage patterns",
                "Set up alerts for unusual activity", "Implement soft rate limiting">>,
   LOW |-> <<"Allow normal access", "Continue standard monitoring">>]

\* C18: getRiskRecommendations returns, for each of the four tiers, the
\* tier's fixed ordered list, which is not empty, and returns the same list
\* for the same riskLevel whatever riskScore it is called with.
C18_RecommendationsByTierAlone ==
  recommendations # Null =>
    /\ recommendations.riskLevel \in DOMAIN ActionsForTier =>
         /\ recommendations.list = ActionsForTier[recommendations.riskLevel]
         /\ recommendations.list # <<>>
    /\ \A riskScore \in RiskScoreArguments :
         getRiskRecommendations(recommendations.riskLevel, riskScore) = recommendations.list

\* getRiskRecommendations was called for HIGH with a score no HIGH session has
C18_Witness ==
  /\ recommendations # Null
  /\ recommendations.riskLevel = "HIGH"
  /\ recommendations.riskScore = 100
  /\ Len(recommendations.list) = 4

\* localStorage works, and holds nothing, or something that does not parse,
\* or a store that saveFingerprint wrote
WorkingStorage(ls) ==
  /\ ls.available
  /\ \/ ls.item = Null
     \/ ls.item.text # "json"
     \/ ls.item.value.shape = "store"

\* C19: with working storage, after any saveFingerprint and
\* clearStoredFingerprints calls, getDeviceCount(id) returns the number of
\* sessions with visitorId = id saved since the last clear, and getIPCount(ip)
\* the number of sessions saved since the last clear whose ipAnalysis is
\* present with that ip; both return 0 for a key not saved since then.
C19_CountersCountSaves ==
  WorkingStorage(localStorage) =>
    /\ \A id \in DeviceIds :
         getDeviceCount(localStorage, id) = Return(recorded.device[id])
    /\ \A ip \in Addresses :
         getIPCount(localStorage, ip) = Return(recorded.ip[ip])

\* two sessions of a device seen before were saved, one of them without
\* ipAnalysis: the device counter is two ahead of the address counter's start
C19_Witness ==
  /\ saves = 2
  /\ WorkingStorage(localStorage)
  /\ getDeviceCount(localStorage, "d1") = Return(12)
  /\ getIPCount(localStorage, "ip1") = Return(11)
  /\ getIPCount(localStorage, "ip2") = Return(0)

\* generateFingerprint comes to its end
Finishes == pc = "awaiting" /\ pc' = "idle"

\* C14: generateFingerprint scores only once all three promises have
\* settled, and then, whichever of them are fulfilled and rejected, it
\* computes an assessment, shows it and hands it to saveFingerprint (which
\* stores it first in the list when localStorage works); a rejected device
\* promise gives the fallback identifier, a rejected incognito promise gives
\* not detected, a rejected or null IP analysis gives no network signal.
C14_SettleAllTolerant ==
  [][(Finishes \/ callLog' # callLog \/ currentSession' # currentSession) =>
       /\ \A producer \in DOMAIN promises : Settled(promises[producer])
       /\ Len(callLog') >= 1 /\ callLog'[1].session = session'
       /\ session'.deviceFingerprint =
            IF promises.device.status = "rejected"
            THEN [visitorId |-> ErrorId, confidence |-> 0]
            ELSE promises.device.value
       /\ session'.incognitoDetection =
            IF promises.incognito.status = "rejected"
            THEN [isIncognito |-> FALSE, confidence |-> 0]
            ELSE promises.incognito.value
       /\ session'.ipAnalysis =
            IF promises.ip.status = "rejected" THEN Null ELSE promises.ip.value
       /\ result' = calculateRiskScore(session', localStorage)
       /\ currentSession' = FingerprintSession(session', result')
       /\ localStorage' = saveFingerprint(localStorage, currentSession')
       /\ WorkingStorage(localStorage) =>
            /\ getStoredFingerprints(localStorage').sessions[1] = currentSession'
            /\ sessions'[1] = currentSession'
       /\ ~isLoading'
     ]_vars

\* an assessment for a rejected device promise and no network signal is
\* shown and is the first of the stored sessions
C14_Witness ==
  /\ currentSession # Null
  /\ currentSession.deviceFingerprint.visitorId = ErrorId
  /\ currentSession.ipAnalysis = Null
  /\ currentSession.riskScore = 40
  /\ StoredSessionCount(localStorage) >= 1
  /\ getStoredFingerprints(localStorage).sessions[1] = currentSession
  /\ ~isLoading

\* C15 (as claimed): once generateFingerprint has started, isLoading
\* eventually returns to false.
C15_AnalysisCompletes ==
  isLoading ~> ~isLoading

\* the device producer failed: its promise rejected, or it caught a throw
\* of FingerprintJS and answered with a fallback id
DeviceProducerFailed(settled) ==
  \/ settled.device.status = "rejected"
  \/ settled.device.status = "fulfilled" /\ settled.device.value.visitorId \in FallbackIds

\* C16 (as claimed): when the device producer failed, the assessment is
\* computed with a fallback identifier and device confidence 0.
C16_FailedDeviceConfidenceZero ==
  [][(Finishes /\ DeviceProducerFailed(promises)) =>
       /\ Len(callLog') >= 1 /\ callLog'[1].session = session'
       /\ session'.deviceFingerprint.visitorId \in FallbackIds \cup {ErrorId}
       /\ session'.deviceFingerprint.confidence = 0
     ]_vars

\* C16 (amended): when the device producer failed, the assessment is
\* computed with a fallback identifier and a device confidence of 0.1 (a
\* throw of FingerprintJS, caught by generateDeviceFingerprint) or of 0 (a
\* rejected promise); either way the lowest-confidence penalty of 40 leads
\* the factor list.
C16_FailedDeviceLowConfidence ==
  [][(Finishes /\ DeviceProducerFailed(promises)) =>
       /\ Len(callLog') >= 1 /\ callLog'[1].session = session'
       /\ promises.device.status = "fulfilled" =>
            /\ session'.deviceFingerprint.visitorId \in FallbackIds
            /\ session'.deviceFingerprint.confidence * 10 = ConfidenceScale
       /\ promises.device.status = "rejected" =>
            /\ session'.deviceFingerprint.visitorId = ErrorId
            /\ session'.deviceFingerprint.confidence = 0
       /\ riskFactors' # <<>> /\ riskFactors'[1] = "very-low-fingerprint-confidence"
       /\ result'.riskScore >= 40
     ]_vars

\* an assessment with the fallback fingerprint of generateDeviceFingerprint
\* was computed and is shown
C16_Witness ==
  /\ currentSession # Null
  /\ currentSession.deviceFingerprint.visitorId \in FallbackIds
  /\ currentSession.deviceFingerprint.confidence * 10 = ConfidenceScale
  /\ currentSession.riskLevel = "HIGH"
  /\ riskFactors[1] = "very-low-fingerprint-confidence"

\* what C20 says of the analysis that comes to its end: it is the k-th of
\* its visitorId since the last clear, it was scored with device count
\* k - 1, with the +15 penalty from the 12th on and the +25 penalty from
\* the 22nd on
ScoredAgainstPriorSightings ==
  LET k == recorded'.device[session'.deviceFingerprint.visitorId] IN
  /\ callLog'[1].lookups.device = Return(k - 1)
  /\ includes(riskFactors', "repeated-device-usage") <=> k \in 12..21
  /\ includes(riskFactors', "frequent-device-reuse") <=> k >= 22

\* C20 (as claimed): every analysis is scored against the prior sightings
\* of its device.
C20_CountsPriorSightings ==
  [][Finishes => ScoredAgainstPriorSightings]_vars

\* C20 (amended): while localStorage works, every analysis is scored
\* against the prior sightings of its device.
C20_CountsPriorSightingsInWorkingStorage ==
  [][(Finishes /\ WorkingStorage(localStorage)) => ScoredAgainstPriorSightings]_vars

\* the 11th analysis of a device went without penalty, the 12th got +15
C20_Witness ==
  /\ Len(callLog) = 2
  /\ recorded.device["d1"] = 12
  /\ callLog[2].lookups.device = Return(10)
  /\ callLog[1].lookups.device = Return(11)
  /\ callLog[1].session = callLog[2].session
  /\ callLog[1].result.riskScore = callLog[2].result.riskScore + 15

\* the amount of the most severe rung that matches, in tenths: the largest
\* amount among the rungs whose condition holds, 0 when none holds
MostSevere(rungs) ==
  LET matching == {r \in rungs : r.when} IN
  IF matching = {} THEN 0
  ELSE Points((CHOOSE r \in matching : \A q \in matching : q.amount <= r.amount).amount)

\* the rungs of the six ladders for a session s and resolved counters
DeviceConfidenceLadder(s) ==
  LET c == s.deviceFingerprint.confidence IN
  { [when |-> ConfBelow(c, 3), amount |-> 40],
    [when |-> ConfBelow(c, 5), amount |-> 25],
    [when |-> ConfBelow(c, 7), amount |-> 10] }

PrivacyLadder(s) ==
  LET d == s.incognitoDetection IN
  { [when |-> d.isIncognito /\ ConfAbove(d.confidence, 8), amount |-> 35],
    [when |-> d.isIncognito /\ ConfAbove(d.confidence, 5), amount |-> 25],
    [when |-> d.isIncognito, amount |-> 15] }

InteractionSpeedLadder(s) ==
  { [when |-> s.behaviorAnalysis.interactionSpeed > 2000, amount |-> 25],
    [when |-> s.behaviorAnalysis.interactionSpeed > 1000, amount |-> 15] }

BurstLadder(s) ==
  LET b == s.behaviorAnalysis
      interactions == b.mouseMovements + b.keystrokes + b.scrollEvents IN
  { [when |-> b.timeOnPage < 3000 /\ interactions > 100, amount |-> 35],
    [when |-> b.timeOnPage < 5000 /\ interactions > 50, amount |-> 20] }

DeviceHistoryLadder(deviceCount) ==
  { [when |-> deviceCount > 20, amount |-> 25],
    [when |-> deviceCount > 10, amount |-> 15] }

AddressHistoryLadder(addressCount) ==
  { [when |-> addressCount > 50, amount |-> 30],
    [when |-> addressCount > 20, amount |-> 20] }

\* C21: in one call of calculateRiskScore each threshold ladder (device
\* confidence, privacy mode, interaction speed, burst abuse, device history,
\* address history) adds exactly one amount, that of its most severe
\* matching threshold, or 0 when none matches, and at most one label.
C21_LaddersAddOnce ==
  [][/\ pc = "FingerprintConfidence" =>
          score' - score = MostSevere(DeviceConfidenceLadder(session))
     /\ pc = "IncognitoDetected" =>
          score' - score = MostSevere(PrivacyLadder(session))
     /\ pc = "InteractionSpeed" =>
          score' - score = MostSevere(InteractionSpeedLadder(session))
     /\ pc = "RapidFire" =>
          score' - score = MostSevere(BurstLadder(session))
     /\ pc = "DeviceHistory" =>
          score' - score =
            MostSevere(DeviceHistoryLadder(DeviceCounter(session, localStorage)))
     /\ pc = "IpHistory" =>
          score' - score =
            MostSevere(AddressHistoryLadder(AddressCounter(session, localStorage)))
     /\ pc \in {"FingerprintConfidence", "IncognitoDetected", "InteractionSpeed",
                "RapidFire", "DeviceHistory", "IpHistory"} =>
          Len(riskFactors') <= Len(riskFactors) + 1]_vars

\* the burst ladder has run for a session that matches both of its rungs,
\* after the speed ladder ran for a speed that matches both of its rungs:
\* 35 and 25 were added, not 55 and 40
C21_Witness ==
  /\ pc = "MinimalInteraction"
  /\ session.behaviorAnalysis.timeOnPage < 3000
  /\ totalInteractions(session) > 100
  /\ session.behaviorAnalysis.interactionSpeed > 2000
  /\ session.deviceFingerprint.confidence = 84
  /\ ~session.incognitoDetection.isIncognito
  /\ session.ipAnalysis = Null
  /\ score = Points(40) + RuleBehavior(session)
  /\ includes(riskFactors, "rapid-fire-interactions")
  /\ ~includes(riskFactors, "fast-interaction-burst")
  /\ ~includes(riskFactors, "very-fast-interactions")

\* the amounts of the flags and of the threat types of a network signal n
\* that are present, each counted on its own, in tenths
FlagsAndTags(n) ==
  LET amounts == [isVPN |-> 30, isTor |-> 50, isProxy |-> 20]
      tagAmounts == <<15, 25, 40, 30>>
      flag(name) == IF n[name] THEN Points(amounts[name]) ELSE 0
      tag(i) == IF includes(n.threatTypes, KnownThreatTypes[i])
                THEN Points(tagAmounts[i]) ELSE 0
  IN flag("isVPN") + flag("isTor") + flag("isProxy") + tag(1) + tag(2) + tag(3) + tag(4)

\* C22: when the network signal is present, what the network statements add
\* before the clamp is riskScore * 0.4 plus 30 if isVPN, 50 if isTor, 20 if
\* isProxy, plus 15 / 25 / 40 / 30 for each of hosting-provider / known-vpn /
\* blacklisted / high-risk that is present; no flag or tag suppresses another.
C22_NetworkPenaltiesAdditive ==
  (pc = "PatternCount" /\ session.ipAnalysis # Null) =>
    score - (RuleDevice(session) + RulePrivacy(session))
      = session.ipAnalysis.riskScore * 4 + FlagsAndTags(session.ipAnalysis)

\* the network statements have run for an address with all three flags and
\* all four threat types: 37 * 0.4 + 210 were added
C22_Witness ==
  /\ pc = "PatternCount"
  /\ session.ipAnalysis # Null
  /\ session.ipAnalysis.isVPN /\ session.ipAnalysis.isTor /\ session.ipAnalysis.isProxy
  /\ Len(session.ipAnalysis.threatTypes) = 4
  /\ score = 148 + Points(210)
  /\ Len(riskFactors) = 7

\* what one anomaly tag contributes, in points: its 12-point base and, for
\* a recognised tag, its extra
TagContribution(tag) ==
  12 + (CASE tag = "inhuman-mouse-speed" -> 20
          [] tag = "inhuman-typing-speed" -> 25
          [] tag = "consistent-keystroke-timing" -> 30
          [] tag = "straight-mouse-lines" -> 15
          [] OTHER -> 0)

RECURSIVE TagsContribution(_)
TagsContribution(tagList) ==
  IF tagList = <<>> THEN 0
  ELSE TagContribution(Head(tagList)) + TagsContribution(Tail(tagList))

\* C23: the anomaly tags contribute 12 points each plus the extras of the
\* recognised tags (+20, +25, +30, +15), the extra on top of the base; an
\* unrecognised tag contributes exactly 12.
C23_BehaviourPenaltiesCumulative ==
  pc = "InteractionSpeed" =>
    score - (RuleDevice(session) + RulePrivacy(session) + RuleNetwork(session))
      = Points(TagsContribution(session.behaviorAnalysis.suspiciousPatterns))

\* the pattern statements have run for a session with the four recognised
\* tags and an unrecognised one: 5 * 12 + 90 were added
C23_Witness ==
  /\ pc = "InteractionSpeed"
  /\ Len(session.behaviorAnalysis.suspiciousPatterns) = 5
  /\ includes(session.behaviorAnalysis.suspiciousPatterns, "repetitive-mouse-pattern")
  /\ score - (RuleDevice(session) + RulePrivacy(session) + RuleNetwork(session)) = Points(150)
  /\ Len(riskFactors) = 4

\* analyzeIP has returned an IPAnalysis
AnalyzeIPReturned ==
  /\ produced.call = "analyzeIP"
  /\ produced.output # Null
  /\ produced.output.value # Null

\* C24: the threatTypes of every IPAnalysis analyzeIP returns holds no label
\* twice, whichever services succeeded and even when several of them
\* report the same threat.
C24_ThreatTypesDeduplicated ==
  AnalyzeIPReturned =>
    LET threatTypes == produced.output.value.threatTypes IN
    \A i, j \in DOMAIN threatTypes : threatTypes[i] = threatTypes[j] => i = j

\* analyzeIP has returned for a private address whose VPN services all
\* failed: the heuristics and the reputation check both said private-ip,
\* and the result holds it once
C24_Witness ==
  /\ AnalyzeIPReturned
  /\ ~produced.input.vpnRejects /\ ~produced.input.securityRejects
  /\ includes(VpnDataOf(produced.input).value.threatTypes, "private-ip")
  /\ includes(AdditionalChecksOf(produced.input).value.threatTypes, "private-ip")
  /\ Len(produced.output.value.threatTypes)
       < Len(VpnDataOf(produced.input).value.threatTypes)
         + Len(AdditionalChecksOf(produced.input).value.threatTypes)

\* the risk score of a settled result, when there is one, lies in 0..100
OwnRiskInRange(settled) ==
  settled.threw \/ settled.value.riskScore \in 0..100

\* C26: the riskScore of the IPAnalysis analyzeIP returns is an integer in
\* 0..100 for every combination of available and unavailable VPN, security
\* and geo results whose own risk scores lie in 0..100.
C26_CombinedRiskScoreInRange ==
  (/\ AnalyzeIPReturned
   /\ OwnRiskInRange(VpnDataOf(produced.input))
   /\ OwnRiskInRange(AdditionalChecksOf(produced.input)))
    => produced.output.value.riskScore \in 0..100

\* analyzeIP has returned 100 for a sum above 100, without a geo result and
\* with the VPN result's own score at its upper end
C26_Witness ==
  /\ AnalyzeIPReturned
  /\ getGeoLocation(produced.input.ipApi, produced.input.ipapiCo).threw
  /\ ~produced.input.vpnRejects
  /\ VpnDataOf(produced.input).value.riskScore = 100
  /\ calculateCombinedRiskScore_unbounded(VpnDataOf(produced.input).value, Null, Null) > 100
  /\ produced.output.value.riskScore = 100

\* detectIncognito has returned
DetectIncognitoReturned ==
  produced.call = "detectIncognito" /\ produced.output # Null

\* how many of the tests ended as `outcome`
TestsEnding(outcome) ==
  Cardinality({i \in DOMAIN produced.input : produced.input[i] = outcome})

\* C25: for every outcome of the seven tests detectIncognito returns
\* 0 <= incognitoCount <= totalTests, confidence = incognitoCount /
\* totalTests within [0,1] (0 when no test succeeded), and isIncognito true
\* exactly when strictly more than half of the successful tests are
\* positive (a tie gives false).
C25_IncognitoVerdict ==
  DetectIncognitoReturned =>
    LET out == produced.output.value
        positive == TestsEnding(Return([isIncognito |-> TRUE]))
        succeeded == IncognitoTests - TestsEnding(Throw)
    IN /\ out.incognitoCount = positive
       /\ out.totalTests = succeeded
       /\ 0 <= out.incognitoCount /\ out.incognitoCount <= out.totalTests
       /\ out.confidence * out.totalTests = out.incognitoCount * ConfidenceScale
       /\ out.totalTests = 0 => out.confidence = 0
       /\ 0 <= out.confidence /\ out.confidence <= ConfidenceScale
       /\ out.isIncognito <=> 2 * positive > succeeded

\* detectIncognito has returned for three positive tests out of six that
\* succeeded: confidence 0.5, not incognito
C25_Witness ==
  /\ DetectIncognitoReturned
  /\ TestsEnding(Throw) = 1
  /\ produced.output.value.incognitoCount = 3
  /\ produced.output.value.totalTests = 6
  /\ produced.output.value.confidence * 2 = ConfidenceScale
  /\ ~produced.output.value.isIncognito

\* the session list getStoredFingerprints gives (empty when there is none)
StoredSessions(ls) ==
  IF getStoredFingerprints(ls).shape = "store"
  THEN getStoredFingerprints(ls).sessions ELSE <<>>

\* the first MaxStoredSessions entries of a list
NewestOf(list) == SubSeq(list, 1, Min(Len(list), MaxStoredSessions))

\* the counter the store holds for a device, and for an address
StoredDeviceCount(ls, id) ==
  IF getDeviceCount(ls, id).threw THEN 0 ELSE getDeviceCount(ls, id).value
StoredIPCount(ls, a) ==
  IF getIPCount(ls, a).threw THEN 0 ELSE getIPCount(ls, a).value

\* this step is a call of saveFingerprint
SaveCalled == saves' = saves + 1

\* this step leaves the list and the counters as a call saveFingerprint(fp)
\* that takes effect leaves them: fp first, the sessions stored before
\* behind it in their order, cut after MaxStoredSessions; the counters of
\* fp's device and address one higher, every other counter as it was
SavedFirst(fp) ==
  /\ recorded' = Record(recorded, fp)
  /\ StoredSessions(localStorage') = NewestOf(<<fp>> \o StoredSessions(localStorage))
  /\ \A id \in DeviceIds :
       StoredDeviceCount(localStorage', id) =
         StoredDeviceCount(localStorage, id)
           + (IF id = fp.deviceFingerprint.visitorId THEN 1 ELSE 0)
  /\ \A a \in Addresses :
       StoredIPCount(localStorage', a) =
         StoredIPCount(localStorage, a)
           + (IF fp.ipAnalysis # Null /\ fp.ipAnalysis.ip = a THEN 1 ELSE 0)

\* C27: after any saveFingerprint calls the stored list holds at most 50
\* sessions, newest first: a call that takes effect puts its session at
\* index 0 in front of the earlier ones and drops what lies beyond 50, and
\* it raises the counters of its device and address by one without lowering
\* any counter, so a counter can exceed the number of sessions retained.  (A
\* call on a store that cannot be read or written is caught and changes
\* nothing.)
C27_AtMostFiftyNewestFirst ==
  [][/\ Len(StoredSessions(localStorage')) <= MaxStoredSessions
     /\ SaveCalled =>
          IF WorkingStorage(localStorage)
          THEN \E s \in ApiSessions :
                 SavedFirst(FingerprintSession(s, calculateRiskScore(s, localStorage)))
          ELSE localStorage' = localStorage]_vars

\* a save has evicted the oldest session: the list is full and the counter
\* of d1 is above the number of sessions of d1 the list holds
C27_Witness ==
  /\ saves > 0
  /\ Len(StoredSessions(localStorage)) = MaxStoredSessions
  /\ StoredDeviceCount(localStorage, "d1") >
       Cardinality({i \in DOMAIN StoredSessions(localStorage) :
                      StoredSessions(localStorage)[i].deviceFingerprint.visitorId = "d1"})
  /\ StoredDeviceCount(localStorage, "d1") > MaxStoredSessions

\* C30: for a session without network signal (ipAnalysis null)
\* calculateRiskScore looks up no address counter and its address-history
\* step adds no points and no label, whatever the store holds; the
\* device-history step still adds what the device's counter calls for.
C30_NoAddressHistoryWithoutNetworkSignal ==
  [][session.ipAnalysis = Null =>
       /\ pc = "IpHistory" => score' = score /\ riskFactors' = riskFactors
       /\ pc = "DeviceHistory" =>
            score' - score = RuleDeviceHistory(DeviceCounter(session, localStorage))
       /\ pc = "clamp" =>
            /\ callLog'[1].lookups.ip = Null
            /\ callLog'[1].lookups.device # Null
            /\ ~includes(riskFactors', "ip-abuse-pattern")
            /\ ~includes(riskFactors', "frequent-ip-usage")]_vars

\* a session without ipAnalysis is past the history steps on a store whose
\* device counter for it is above 20 and whose address counters are above
\* both thresholds: 25 for the device, nothing for an address
C30_Witness ==
  /\ pc = "HeadlessBrowser"
  /\ session.ipAnalysis = Null
  /\ getDeviceCount(localStorage, session.deviceFingerprint.visitorId) = Return(25)
  /\ getIPCount(localStorage, "ip1") = Return(60)
  /\ includes(riskFactors, "frequent-device-reuse")
  /\ ~includes(riskFactors, "ip-abuse-pattern")
  /\ ~includes(riskFactors, "frequent-ip-usage")

\* C29: in generateFingerprint, whenever detectIncognito reports privacy
\* mode its confidence is above 0.5, so the session scored gets 25 or 35
\* points for privacy mode with the label likely-incognito or
\* confirmed-incognito, and never the 15 points of possible-incognito.
C29_DetectedMeansLikelyOrConfirmed ==
  [][/\ (promises'.incognito.status = "fulfilled"
           /\ promises'.incognito.value.isIncognito) =>
          ConfAbove(promises'.incognito.value.confidence, 5)
     /\ Finishes =>
          /\ ~includes(riskFactors', "possible-incognito")
          /\ (promises.incognito.status = "fulfilled"
                /\ promises.incognito.value.isIncognito) =>
               /\ session'.incognitoDetection = promises.incognito.value
               /\ IncognitoDetected(session', InitialLocals).score
                    \in {Points(25), Points(35)}
               /\ \/ includes(riskFactors', "likely-incognito")
                  \/ includes(riskFactors', "confirmed-incognito")]_vars

\* an analysis has ended for which four of the five tests that succeeded
\* were positive: detected at confidence 0.8, scored as likely-incognito
C29_Witness ==
  /\ pc = "idle"
  /\ saves = 1
  /\ session.incognitoDetection.isIncognito
  /\ session.incognitoDetection.confidence * 5 = 4 * ConfidenceScale
  /\ includes(riskFactors, "likely-incognito")
  /\ ~includes(riskFactors, "confirmed-incognito")

\* the tags the tracker holds
TrackerTags == arrays[tracker.suspiciousPatterns]

\* a list is the beginning of another
IsPrefix(short, long) ==
  Len(short) <= Len(long) /\ SubSeq(long, 1, Len(short)) = short

\* no entry of a list occurs twice in it
NoDuplicates(list) == \A i, j \in DOMAIN list : list[i] = list[j] => i = j

\* C28: whatever mousemove, keydown, scroll and click events a
\* BehaviorTracker has received, mousePath holds at most 100 entries and
\* keystrokeTimings at most 50 and no tag occurs twice in
\* suspiciousPatterns; a step other than reset() takes no tag away and
\* lowers none of the three counters; getAnalysis returns an array of its
\* own with the tags of the moment, which later events and reset() leave
\* as it is.
C28_TrackerBounded ==
  [][/\ Len(tracker'.mousePath) <= 100
     /\ Len(tracker'.keystrokeTimings) <= 50
     /\ NoDuplicates(arrays'[tracker'.suspiciousPatterns])
     /\ events'.last # "reset" =>
          /\ IsPrefix(TrackerTags, arrays'[tracker'.suspiciousPatterns])
          /\ tracker'.mouseMovements >= tracker.mouseMovements
          /\ tracker'.keystrokes >= tracker.keystrokes
          /\ tracker'.scrollEvents >= tracker.scrollEvents
     /\ events'.last = "getAnalysis" =>
          /\ arrays'[lastAnalysis'.suspiciousPatterns] = TrackerTags
          /\ lastAnalysis'.suspiciousPatterns # tracker'.suspiciousPatterns
     /\ (events'.last # "getAnalysis" /\ lastAnalysis # Null) =>
          /\ lastAnalysis' = lastAnalysis
          /\ arrays'[lastAnalysis.suspiciousPatterns] = arrays[lastAnalysis.suspiciousPatterns]]_vars

\* an analysis was taken from a tracker with a full mousePath and no tag;
\* the move after it was the 101st, pushed the oldest position out and
\* brought a tag the analysis does not show
C28_Witness ==
  /\ lastAnalysis # Null
  /\ events.last = "mousemove"
  /\ tracker.mouseMovements = 101
  /\ lastAnalysis.mouseMovements = 100
  /\ Len(tracker.mousePath) = 100
  /\ arrays[lastAnalysis.suspiciousPatterns] = <<>>
  /\ TrackerTags = <<"inhuman-mouse-speed">>

====
